---- MODULE Spec2Model ----
(***************************************************************************)
(* A model of the safe-extraction engine of codeclysm/extract              *)
(* (src/extractor.go): the path-safety guard safeJoin, the Tar and Zip     *)
(* entry passes, the deferred link passes and the filesystem they act on.  *)
(*                                                                         *)
(* Strings are sequences of one-character strings, so that string-prefix   *)
(* tests, filepath.Clean and filepath.Join are computed character by       *)
(* character as the Go runtime computes them.                              *)
(***************************************************************************)
EXTENDS Integers, Sequences, FiniteSets, TLC

VARIABLES
    format,     \* the function of Extractor that runs, named by the kind it
                \* handles: "tar", "zip", "gz", "bz2", "xz", "zst", "archive"
    seekable,   \* Zip: body is an io.ReaderAt and an io.Seeker
    valid,      \* Zip: the whole of body is a zip file zip.NewReader accepts
    location,   \* the location argument (ExtractionRoot), a string
    rename,     \* the Renamer argument: "nil" or the name of a renamer
    fs,         \* the filesystem: absolute path (sequence of segments) -> node
    archive,    \* the entries read from the archive so far, in order
    pc,         \* position of the call: "match", "decompress", "open", "entries",
                \* "links", "placeholders", "symlinks", "end"
    k,          \* index of the next pending link of the running link loop
    links,      \* Tar: pending hard links, records [Path, Name, idx]
    symlinks,   \* pending symbolic links, records [Path, Name, idx]
    journal,    \* every call made on the FS capability, in order
    result,     \* "running", "ok", or the error the call returned
    cancelled,  \* TRUE once ctx.Done() is closed
    cancelAt,   \* what had been done when ctx was cancelled
    sjArg,      \* safeJoin study: the pair <<parent, subdir>>
    sjOut,      \* safeJoin study: the value returned, or "none"
    cp,         \* copyCancel study: source, sink, position and outcome
    mt,         \* match study: the stream, what was read of it, the kind told
    message,    \* the text of the error Archive returns, a list of its parts
    other,      \* a second call that runs at the same time, while it waits
    begun,      \* how many calls the handler under way has made on the filesystem
    enforce     \* the process is not root: permission bits are enforced on it

vars == <<format, seekable, valid, location, rename, fs, archive, pc, k, links, symlinks,
          journal, result, cancelled, cancelAt, sjArg, sjOut, cp, mt, message, other,
          begun, enforce>>

callVars == <<format, seekable, valid, location, rename, fs, archive, pc, k, links, symlinks,
              journal, result, cancelled, cancelAt, other, begun,
              enforce>>

-----------------------------------------------------------------------------
(* Strings                                                                 *)

Sep == "/"

HasPrefix(s, p) == Len(p) <= Len(s) /\ SubSeq(s, 1, Len(p)) = p

HasSuffix(s, p) == Len(p) <= Len(s) /\ SubSeq(s, Len(s) - Len(p) + 1, Len(s)) = p

\* index of the first occurrence of character c in s, 0 when there is none
IndexOf(s, c) ==
    IF \E i \in 1..Len(s) : s[i] = c
    THEN CHOOSE i \in 1..Len(s) : s[i] = c /\ \A j \in 1..(i - 1) : s[j] # c
    ELSE 0

\* index of the last occurrence of character c in s, 0 when there is none
LastIndexOf(s, c) ==
    IF \E i \in 1..Len(s) : s[i] = c
    THEN CHOOSE i \in 1..Len(s) : s[i] = c /\ \A j \in (i + 1)..Len(s) : s[j] # c
    ELSE 0

\* strings.Split(s, sep): the pieces of s between separators, empty ones kept
RECURSIVE Split(_, _)
Split(s, c) ==
    LET i == IndexOf(s, c)
    IN  IF i = 0 THEN <<s>>
        ELSE <<SubSeq(s, 1, i - 1)>> \o Split(SubSeq(s, i + 1, Len(s)), c)

\* strings.Join(segs, sep)
RECURSIVE JoinWith(_, _)
JoinWith(segs, c) ==
    IF segs = <<>> THEN <<>>
    ELSE IF Len(segs) = 1 THEN segs[1]
    ELSE segs[1] \o <<c>> \o JoinWith(Tail(segs), c)

\* strings.Replace(s, old, new, -1) for single characters
ReplaceAll(s, old, new) == [i \in 1..Len(s) |-> IF s[i] = old THEN new ELSE s[i]]

DotDot == <<".", ".">>

\* filepath.Clean, one path element at a time: empty and "." elements are
\* dropped, ".." removes the element before it, is dropped at the root of a
\* rooted path and is kept at the front of a relative one.
RECURSIVE CleanStack(_, _, _)
CleanStack(segs, stack, rooted) ==
    IF segs = <<>> THEN stack
    ELSE LET s == Head(segs)
             rest == Tail(segs)
         IN  IF s = <<>> \/ s = <<".">> THEN CleanStack(rest, stack, rooted)
             ELSE IF s = DotDot
             THEN IF stack # <<>> /\ stack[Len(stack)] # DotDot
                  THEN CleanStack(rest, SubSeq(stack, 1, Len(stack) - 1), rooted)
                  ELSE IF rooted THEN CleanStack(rest, stack, rooted)
                  ELSE CleanStack(rest, Append(stack, s), rooted)
             ELSE CleanStack(rest, Append(stack, s), rooted)

Clean(path) ==
    IF path = <<>> THEN <<".">>
    ELSE LET rooted == path[1] = Sep
             body == JoinWith(CleanStack(Split(path, Sep), <<>>, rooted), Sep)
         IN  IF rooted THEN <<Sep>> \o body
             ELSE IF body = <<>> THEN <<".">> ELSE body

\* filepath.Join of two elements: the elements from the first non-empty one
\* on are joined with the separator and cleaned; "" when both are empty.
FilepathJoin(a, b) ==
    IF a # <<>> THEN Clean(a \o <<Sep>> \o b)
    ELSE IF b # <<>> THEN Clean(b)
    ELSE <<>>

\* filepath.Dir: everything up to the last separator, cleaned
FilepathDir(path) == Clean(SubSeq(path, 1, LastIndexOf(path, Sep)))

-----------------------------------------------------------------------------
(* PathSafetyGuard                                                         *)

\* the bug of comparing with the parent as given, without its separator
safeJoin_NoSeparator(parent, subdir) ==
    LET res == FilepathJoin(parent, subdir)
    IN  [path |-> res, err |-> ~HasPrefix(res, parent)]

\* the bug of joining without the containment check
safeJoin_NoCheck(parent, subdir) ==
    [path |-> FilepathJoin(parent, subdir), err |-> FALSE]

safeJoin(parent, subdir) ==
    LET res == FilepathJoin(parent, subdir)
        par == IF ~HasSuffix(parent, <<Sep>>) THEN parent \o <<Sep>> ELSE parent
    IN  [path |-> res, err |-> ~HasPrefix(res, par)]

-----------------------------------------------------------------------------
(* The filesystem behind the FS capability                                 *)
(*                                                                         *)
(* fs maps the absolute path of every existing object (a sequence of       *)
(* segments, <<>> being "/") to its node.  Paths are resolved as the       *)
(* operating system resolves them: symbolic links met on the way are       *)
(* followed, the last component only when the operation follows it.        *)

MaxSymlinkHops == 4

Cwd == <<>>

\* data is the content of a regular file, ino tells its names apart from
\* those of other files
Node(kind, mode, target, ino) ==
    [kind |-> kind, mode |-> mode, target |-> target, ino |-> ino, data |-> <<>>]

DirNode(mode) == Node("dir", mode, <<>>, 0)

PathSegs(p) == SelectSeq(Split(p, Sep), LAMBDA s : s # <<>>)

Parent(path) == IF path = <<>> THEN <<>> ELSE SubSeq(path, 1, Len(path) - 1)

IsPrefixPath(p, q) == Len(p) <= Len(q) /\ SubSeq(q, 1, Len(p)) = p

NoWalk(st) == [st |-> st, path |-> <<>>, exists |-> FALSE]

\* cur is the directory reached so far, rest the components still to resolve
RECURSIVE Walk(_, _, _, _, _)
Walk(f, cur, rest, followLast, fuel) ==
    IF rest = <<>> THEN [st |-> "ok", path |-> cur, exists |-> TRUE]
    ELSE LET s == Head(rest)
             more == Tail(rest)
             last == more = <<>>
             nxt == Append(cur, s)
         IN  IF s = <<>> \/ s = <<".">> THEN Walk(f, cur, more, followLast, fuel)
             ELSE IF s = DotDot THEN Walk(f, Parent(cur), more, followLast, fuel)
             ELSE IF nxt \notin DOMAIN f
             THEN IF last THEN [st |-> "ok", path |-> nxt, exists |-> FALSE]
                  ELSE NoWalk("enoent")
             ELSE IF f[nxt].kind = "symlink" /\ (~last \/ followLast)
             THEN IF fuel = 0 THEN NoWalk("eloop")
                  ELSE LET t == f[nxt].target
                       IN  Walk(f, IF HasPrefix(t, <<Sep>>) THEN <<>> ELSE cur,
                                Split(t, Sep) \o more, followLast, fuel - 1)
             ELSE IF last THEN [st |-> "ok", path |-> nxt, exists |-> TRUE]
             ELSE IF f[nxt].kind = "dir" THEN Walk(f, nxt, more, followLast, fuel)
             ELSE NoWalk("enotdir")

Resolve(f, p, followLast) ==
    Walk(f, IF HasPrefix(p, <<Sep>>) THEN <<>> ELSE Cwd, Split(p, Sep),
         followLast, MaxSymlinkHops)

HasChildren(f, path) == \E q \in DOMAIN f : Len(q) = Len(path) + 1 /\ IsPrefixPath(path, q)

Without(f, path) == [q \in DOMAIN f \ {path} |-> f[q]]

With(f, path, node) == [q \in DOMAIN f \cup {path} |-> IF q = path THEN node ELSE f[q]]

FsResult(f, ok, touched) == [fs |-> f, ok |-> ok, touched |-> touched]

\* the permission bit b of the owner (256 read, 128 write, 64 search) is set
OwnerBit(mode, b) == (mode \div b) % 2 = 1

\* a name may be added to the directory or taken from it: the owner, when
\* not root, needs the write and the search permission
MayWriteIn(f, dir) ==
    ~enforce \/ (dir \in DOMAIN f /\ OwnerBit(f[dir].mode, 128) /\ OwnerBit(f[dir].mode, 64))

\* the file may be opened for writing
MayWrite(f, path) == ~enforce \/ OwnerBit(f[path].mode, 128)

\* os.Stat: the object the path leads to, symbolic links followed
StatAt(f, w) == FsResult(f, w.st = "ok" /\ w.exists, {})

FsStat(f, p) == StatAt(f, Resolve(f, p, TRUE))

\* os.Mkdir: fails when anything, a dangling link included, has the name;
\* os.MkdirAll takes that failure for success when the name is a directory
MkdirAt(f, w, mode) ==
    IF w.st = "ok" /\ ~w.exists /\ MayWriteIn(f, Parent(w.path))
    THEN FsResult(With(f, w.path, DirNode(mode)), TRUE, {w.path})
    ELSE FsResult(f, w.st = "ok" /\ w.exists /\ f[w.path].kind = "dir", {})

FsMkdir(f, p, mode) == MkdirAt(f, Resolve(f, p, FALSE), mode)

MkdirAfterParent(r, m) ==
    IF ~r.ok THEN r ELSE FsResult(m.fs, m.ok, r.touched \cup m.touched)

\* os.MkdirAll: nil when the path is a directory already, ENOTDIR when it is
\* something else, otherwise the parent is made first and then the path.
RECURSIVE FsMkdirAll(_, _, _)
RECURSIVE MkdirAllAt(_, _, _, _)
RECURSIVE MkdirAllUnder(_, _, _)
MkdirAllUnder(r, p, mode) == MkdirAfterParent(r, FsMkdir(r.fs, p, mode))

MkdirAllAt(f, p, mode, w) ==
    IF w.st = "ok" /\ w.exists
    THEN FsResult(f, f[w.path].kind = "dir", {})
    ELSE IF LastIndexOf(p, Sep) > 1
    THEN MkdirAllUnder(FsMkdirAll(f, SubSeq(p, 1, LastIndexOf(p, Sep) - 1), mode), p, mode)
    ELSE FsMkdir(f, p, mode)

FsMkdirAll(f, p, mode) == MkdirAllAt(f, p, mode, Resolve(f, p, TRUE))

\* os.Remove: unlink, or rmdir of an empty directory; the last component is
\* not followed.
RemoveAt(f, w) ==
    IF /\ w.st = "ok" /\ w.exists /\ w.path # <<>>
       /\ (f[w.path].kind = "dir" => ~HasChildren(f, w.path))
       /\ MayWriteIn(f, Parent(w.path))
    THEN FsResult(Without(f, w.path), TRUE, {w.path})
    ELSE FsResult(f, FALSE, {})

FsRemove(f, p) == RemoveAt(f, Resolve(f, p, FALSE))

\* the content of the file at path becomes data, under all of its names
WriteFile(f, path, data) ==
    [q \in DOMAIN f |->
        IF f[q].kind = "file" /\ f[q].ino = f[path].ino
        THEN [f[q] EXCEPT !.data = data] ELSE f[q]]

\* os.OpenFile with O_CREATE|O_TRUNC|O_WRONLY: the last component is
\* followed; an existing file is truncated, a missing one created.
OpenAt(f, w, mode, ino) ==
    IF w.st # "ok" THEN FsResult(f, FALSE, {})
    ELSE IF ~w.exists
    THEN IF MayWriteIn(f, Parent(w.path))
         THEN FsResult(With(f, w.path, Node("file", mode, <<>>, ino)), TRUE, {w.path})
         ELSE FsResult(f, FALSE, {})
    ELSE IF f[w.path].kind = "file" /\ MayWrite(f, w.path)
    THEN FsResult(WriteFile(f, w.path, <<>>), TRUE, {w.path})
    ELSE FsResult(f, FALSE, {})

FsOpenFile(f, p, mode, ino) == OpenAt(f, Resolve(f, p, TRUE), mode, ino)

\* os.Link: newname becomes another name of the object at oldname
LinkAt(f, o, n) ==
    IF /\ o.st = "ok" /\ o.exists /\ f[o.path].kind # "dir"
       /\ n.st = "ok" /\ ~n.exists /\ MayWriteIn(f, Parent(n.path))
    THEN FsResult(With(f, n.path, f[o.path]), TRUE, {n.path})
    ELSE FsResult(f, FALSE, {})

FsLink(f, old, new) == LinkAt(f, Resolve(f, old, FALSE), Resolve(f, new, FALSE))

\* os.Symlink: newname becomes a symbolic link holding the text oldname
SymlinkAt(f, old, n) ==
    IF n.st = "ok" /\ ~n.exists /\ MayWriteIn(f, Parent(n.path))
    THEN FsResult(With(f, n.path, Node("symlink", 511, old, 0)), TRUE, {n.path})
    ELSE FsResult(f, FALSE, {})

FsSymlink(f, old, new) == SymlinkAt(f, old, Resolve(f, new, FALSE))

\* os.Chmod: changes the mode of the object the path leads to
ChmodAt(f, w, mode) ==
    IF w.st = "ok" /\ w.exists
    THEN FsResult(With(f, w.path, [f[w.path] EXCEPT !.mode = mode]), TRUE, {w.path})
    ELSE FsResult(f, FALSE, {})

FsChmod(f, p, mode) == ChmodAt(f, Resolve(f, p, TRUE), mode)

-----------------------------------------------------------------------------
(* Inputs: archive entries, renamers, destinations                         *)

MaxEntries == 3

MaxPairEntries == 2

Entry(kind, name, linkname, mode) ==
    [kind |-> kind, Name |-> name, Linkname |-> linkname, Mode |-> mode, Data |-> <<>>]

\* a regular file and the bytes that follow its header
File(name, mode, data) == [Entry("reg", name, <<>>, mode) EXCEPT !.Data = data]

\* The entries a tar stream may hold (header.Typeflag, Name, Linkname, Mode):
\* the shapes built by evil_generator and by TestSymLinkMazeHardening, with
\* one-letter names, and a header of a type that the switch has no case for
\* (tar.TypeFifo).  /t plays the temporary directory of the tests, /t/d the
\* destination, /t/m a directory beside it.
TarPool ==
    { Entry("dir", <<"m">>, <<>>, 493),
      Entry("dir", <<"a">>, <<>>, 384),
      File(<<"f">>, 420, <<1>>),
      File(<<"a", "/", "f">>, 420, <<2, 3>>),
      File(<<".", ".", "/", "m", "/", "e">>, 420, <<>>),
      Entry("symlink", <<"a">>, <<"/", "t">>, 511),
      Entry("symlink", <<"a">>, <<".", ".", "/", "m">>, 511),
      Entry("symlink", <<"a">>, <<"m">>, 511),
      Entry("symlink", <<"a", "/", "s">>, <<"x">>, 511),
      Entry("link", <<"h">>, <<"f">>, 420),
      Entry("link", <<"a", "/", "h">>, <<"a", "/", "f">>, 420),
      Entry("link", <<"l">>, <<".", ".", "/", "m", "/", "e">>, 511),
      Entry("fifo", <<"p">>, <<>>, 420) }

\* regular files with the permission bits 0644, 0444, 0400 and 0600, in
\* the destination and in two directories, and a directory entry 0755
ModePool ==
    { File(<<"f">>, 292, <<1>>),
      File(<<"a", "/", "f">>, 420, <<2>>),
      File(<<"a", "/", "g">>, 292, <<3>>),
      File(<<"b", "/", "f">>, 256, <<4>>),
      File(<<"b", "/", "g">>, 384, <<5>>),
      Entry("dir", <<"a">>, <<>>, 493) }

\* the entries of the archives of two calls that run at the same time
PairPool ==
    { File(<<"f">>, 420, <<1>>),
      File(<<"a", "/", "f">>, 420, <<2, 3>>),
      File(<<".", ".", "/", "m", "/", "e">>, 420, <<>>),
      Entry("symlink", <<"a">>, <<".", ".", "/", "m">>, 511),
      Entry("link", <<"h">>, <<"f">>, 420) }

\* The entries of a zip archive: zip has no hard links, and the target of a
\* symbolic link is the content of its entry.
\* Names stored with backslashes, as some compressors write them: a file
\* in a folder, and a file and a symbolic link whose names end with one.
BackslashPool ==
    { File(<<"a", "\\", "f">>, 420, <<4>>),
      File(<<"b", "\\">>, 420, <<5>>),
      Entry("symlink", <<"b", "\\">>, <<"x">>, 511) }

ZipPool == { e \in TarPool : e.kind \notin {"link", "fifo"} } \cup BackslashPool

\* shift of the tests: drops the first path element
shift(path) == JoinWith(Tail(Split(path, Sep)), Sep)

\* a renamer that maps every name above the destination
up(path) == <<".", ".", "/">> \o path

Renamers == {"nil", "shift", "up"}

\* path = header.Name; if rename != nil { path = rename(path) }
ApplyRename(path) ==
    IF rename = "nil" THEN path
    ELSE IF rename = "shift" THEN shift(path)
    ELSE up(path)

LocTD == <<"/", "t", "/", "d">>

\* the directories of the tests before the call: /t, the destination /t/d
\* and /t/m beside it
FreshFs ==
    [p \in { <<>>, << <<"t">> >>, << <<"t">>, <<"d">> >>, << <<"t">>, <<"m">> >> }
        |-> DirNode(493)]

\* the same with two symbolic links left in the destination: a -> /t/m, to
\* a directory, and f -> /t/m/e, to a file that is not there
LinkedFs ==
    With(With(FreshFs, << <<"t">>, <<"d">>, <<"a">> >>,
              Node("symlink", 511, <<"/", "t", "/", "m">>, 0)),
         << <<"t">>, <<"d">>, <<"f">> >>,
         Node("symlink", 511, <<"/", "t", "/", "m", "/", "e">>, 0))

-----------------------------------------------------------------------------
(* Calls on the FS capability                                              *)

FsCall(op, path, old, mode, idx, site) ==
    [op |-> op, path |-> path, old |-> old, mode |-> mode, idx |-> idx, site |-> site]

\* S is the state a handler threads through its calls: the filesystem, the
\* journal, the two queues of pending links and the error met, if any.
\* A handler runs in one step, or, beside another call, one call on the
\* filesystem at a time: then past is the journal with the calls it has
\* made so far.
St(f, j, l, s, err) ==
    [fs |-> f, journal |-> j, links |-> l, symlinks |-> s, err |-> err,
     sliced |-> FALSE, past |-> <<>>]

\* the call the handler makes now is one it made in a step before
Made(S) == S.sliced /\ Len(S.journal) < Len(S.past)

\* the call the handler makes now is left to a later step
Later(S) == S.sliced /\ Len(S.journal) > Len(S.past)

\* the call c is journalled with the outcome r the filesystem gave it; a
\* handler that runs one call at a time goes on from the outcomes its
\* earlier calls had, and makes one call more
Log(S, c, r) ==
    IF Made(S)
    THEN LET was == S.past[Len(S.journal) + 1]
         IN  [S EXCEPT !.journal = Append(S.journal, was),
                       !.err = IF was.ok THEN "none" ELSE "fs"]
    ELSE IF Later(S)
    THEN [S EXCEPT !.journal = Append(S.journal, c @@ [ok |-> TRUE, touched |-> {}]),
                   !.err = "none"]
    ELSE [S EXCEPT !.fs = r.fs,
                   !.journal = Append(S.journal, c @@ [ok |-> r.ok, touched |-> r.touched]),
                   !.err = IF r.ok THEN "none" ELSE "fs"]

DoMkdirAll(S, path, mode, idx, site) ==
    Log(S, FsCall("mkdirall", path, <<>>, mode, idx, site), FsMkdirAll(S.fs, path, mode))

DoRemove(S, path, idx, site) ==
    Log(S, FsCall("remove", path, <<>>, 0, idx, site), FsRemove(S.fs, path))

\* no second call
NoOther ==
    [id |-> 0, format |-> "none", location |-> <<>>, rename |-> "nil", archive |-> <<>>,
     pc |-> "end", k |-> 1, links |-> <<>>, symlinks |-> <<>>, journal |-> <<>>,
     result |-> "none", begun |-> 0, mixed |-> FALSE]

\* two calls run at the same time
Paired == other.id # 0

\* a file gets an inode number no other file has: the rank of its OpenFile
\* in the journal of its call, the numbers of the second call being apart
InoBase == IF other.id = 1 THEN 100 ELSE 0

DoOpenFile(S, path, mode, idx, site) ==
    Log(S, FsCall("open", path, <<>>, mode, idx, site),
        FsOpenFile(S.fs, path, mode, Len(S.journal) + 1 + InoBase))

DoLink(S, old, new, idx, site) ==
    Log(S, FsCall("link", new, old, 0, idx, site), FsLink(S.fs, old, new))

DoSymlink(S, old, new, idx, site) ==
    Log(S, FsCall("symlink", new, old, 0, idx, site), FsSymlink(S.fs, old, new))

DoStat(S, path, idx, site) ==
    Log(S, FsCall("stat", path, <<>>, 0, idx, site), FsStat(S.fs, path))

DoChmod(S, path, mode, idx, site) ==
    Log(S, FsCall("chmod", path, <<>>, mode, idx, site), FsChmod(S.fs, path, mode))

Fail(S, err) == [S EXCEPT !.err = err]

\* if err != nil { return errors.Annotatef(err, ...) }
OrFail(S, err) == IF S.err # "none" THEN Fail(S, err) ELSE S

\* mode | 0100
OrOwnerExec(mode) == IF (mode \div 64) % 2 = 1 THEN mode ELSE mode + 64

\* the file the last call, an OpenFile, opened
Opened(c) == CHOOSE q \in c.journal[Len(c.journal)].touched : TRUE

\* copyCancel into the opened file: the context is polled before the read,
\* and the bytes of src reach the file when it was not cancelled
CopyData(c, src) ==
    IF c.sliced /\ Len(c.journal) # Len(c.past) + 1 THEN c
    ELSE IF c.err # "none" THEN Fail(c, "copy")
    ELSE IF cancelled THEN Fail(c, "interrupted")
    ELSE [c EXCEPT !.fs = WriteFile(c.fs, Opened(c), src)]

\* Remove of the path, its error dropped, then OpenFile
CopyOpen(a, path, mode, idx, src) ==
    IF a.err # "none" THEN Fail(a, "copy")
    ELSE CopyData(DoOpenFile(DoRemove(a, path, idx, "copy"), path, mode, idx, "copy"), src)

\* the bug of opening the path without removing what is there
copy_NoRemove(S, path, mode, idx, src) ==
    LET a == DoMkdirAll(S, FilepathDir(path), OrOwnerExec(mode), idx, "copy")
    IN  IF a.err # "none" THEN Fail(a, "copy")
        ELSE CopyData(DoOpenFile(a, path, mode, idx, "copy"), src)

\* Extractor.copy: the parent directories, Remove, OpenFile, copyCancel
copy(S, path, mode, idx, src) ==
    CopyOpen(DoMkdirAll(S, FilepathDir(path), OrOwnerExec(mode), idx, "copy"),
             path, mode, idx, src)

-----------------------------------------------------------------------------
(* Extractor.Tar and Extractor.Zip: what is done for one entry             *)

PendingLink(path, name, idx) == [Path |-> path, Name |-> name, idx |-> idx]

\* the bug of queueing a hard link whatever its target
TarTypeLink_NoGuard(S, path, e, idx) ==
    LET name == safeJoin(location, ApplyRename(e.Linkname))
    IN  [S EXCEPT !.links = Append(@, PendingLink(path, name.path, idx))]

\* the bug of joining the link name of the header without renaming it
TarTypeLink_RawTarget(S, path, e, idx) ==
    LET name == safeJoin(location, e.Linkname)
    IN  IF name.err THEN S
        ELSE [S EXCEPT !.links = Append(@, PendingLink(path, name.path, idx))]

\* case tar.TypeLink: the link name is renamed and safety-joined, and the
\* entry is dropped when that fails
TarTypeLink(S, path, e, idx) ==
    LET name == safeJoin(location, ApplyRename(e.Linkname))
    IN  IF name.err THEN S
        ELSE [S EXCEPT !.links = Append(@, PendingLink(path, name.path, idx))]

\* the bug of creating the symbolic link as soon as its entry is read
TarTypeSymlink_Eager(S, path, e, idx) ==
    OrFail(DoSymlink(DoRemove(S, path, idx, "symlink"), e.Linkname, path, idx, "symlink"),
           "symlink")

\* the bug of treating the target of a symbolic link like the one of a hard link
TarTypeSymlink_Joined(S, path, e, idx) ==
    [S EXCEPT !.symlinks =
        Append(@, PendingLink(path, safeJoin(location, ApplyRename(e.Linkname)).path, idx))]

\* case tar.TypeSymlink: queued with the link name as it is in the header
TarTypeSymlink(S, path, e, idx) ==
    [S EXCEPT !.symlinks = Append(@, PendingLink(path, e.Linkname, idx))]

\* case tar.TypeDir
TarTypeDir(S, path, e, idx) == OrFail(DoMkdirAll(S, path, e.Mode, idx, "dir"), "mkdir")

\* the bug of returning the error of safeJoin instead of skipping the entry
TarHeader_UnsafeFatal(S, e, idx) ==
    LET renamed == ApplyRename(e.Name)
        sj == safeJoin(location, renamed)
    IN  IF renamed = <<>> THEN S
        ELSE IF sj.err THEN Fail(S, "unsafe")
        ELSE CASE e.kind = "dir"     -> TarTypeDir(S, sj.path, e, idx)
               [] e.kind = "reg"     -> copy(S, sj.path, e.Mode, idx, e.Data)
               [] e.kind = "link"    -> TarTypeLink(S, sj.path, e, idx)
               [] e.kind = "symlink" -> TarTypeSymlink(S, sj.path, e, idx)
               [] OTHER              -> S

\* the bug of checking the stored name and renaming afterwards
TarHeader_CheckBeforeRename(S, e, idx) ==
    LET renamed == ApplyRename(e.Name)
        sj == safeJoin(location, e.Name)
        path == FilepathJoin(location, renamed)
    IN  IF renamed = <<>> THEN S
        ELSE IF sj.err THEN S
        ELSE CASE e.kind = "dir"     -> TarTypeDir(S, path, e, idx)
               [] e.kind = "reg"     -> copy(S, path, e.Mode, idx, e.Data)
               [] e.kind = "link"    -> TarTypeLink(S, path, e, idx)
               [] e.kind = "symlink" -> TarTypeSymlink(S, path, e, idx)
               [] OTHER              -> S

\* the bug of writing the entry of any other type as a regular file
TarHeader_OtherAsFile(S, e, idx) ==
    LET renamed == ApplyRename(e.Name)
        sj == safeJoin(location, renamed)
    IN  IF renamed = <<>> THEN S
        ELSE IF sj.err THEN S
        ELSE CASE e.kind = "dir"     -> TarTypeDir(S, sj.path, e, idx)
               [] e.kind = "link"    -> TarTypeLink(S, sj.path, e, idx)
               [] e.kind = "symlink" -> TarTypeSymlink(S, sj.path, e, idx)
               [] OTHER              -> copy(S, sj.path, e.Mode, idx, e.Data)

\* the body of Tar's loop once tr.Next() has returned a header; the switch
\* on header.Typeflag has no default case
TarHeader(S, e, idx) ==
    LET renamed == ApplyRename(e.Name)
        sj == safeJoin(location, renamed)
    IN  IF renamed = <<>> THEN S
        ELSE IF sj.err THEN S
        ELSE CASE e.kind = "dir"     -> TarTypeDir(S, sj.path, e, idx)
               [] e.kind = "reg"     -> copy(S, sj.path, e.Mode, idx, e.Data)
               [] e.kind = "link"    -> TarTypeLink(S, sj.path, e, idx)
               [] e.kind = "symlink" -> TarTypeSymlink(S, sj.path, e, idx)
               [] OTHER              -> S

\* the bug of calling MkdirAll whether or not the path is there
ZipDirStat_AlwaysMkdir(a, path, dirMode, idx) ==
    OrFail(DoMkdirAll(a, path, dirMode, idx, "dir"), "mkdir")

\* Chmod when Stat found the path, MkdirAll otherwise
ZipDirStat(a, path, dirMode, idx) ==
    IF a.err = "none"
    THEN OrFail(DoChmod(a, path, dirMode, idx, "dir"), "chmod")
    ELSE OrFail(DoMkdirAll(a, path, dirMode, idx, "dir"), "mkdir")

\* case info.IsDir() || forceDir
ZipDir(S, path, e, idx) ==
    ZipDirStat(DoStat(S, path, idx, "dir"), path, OrOwnerExec(e.Mode), idx)

\* case info.Mode()&os.ModeSymlink != 0: queued with the content of the entry
ZipSymlink(S, path, e, idx) ==
    [S EXCEPT !.symlinks = Append(@, PendingLink(path, e.Linkname, idx))]

\* the bug of trusting the stored mode of a name that ends with a backslash
ZipHeader_NoForceDir(S, e, idx) ==
    LET renamed == ApplyRename(ReplaceAll(e.Name, "\\", Sep))
        sj == safeJoin(location, renamed)
    IN  IF renamed = <<>> THEN S
        ELSE IF sj.err THEN S
        ELSE IF e.kind = "dir" THEN ZipDir(S, sj.path, e, idx)
        ELSE IF e.kind = "symlink" THEN ZipSymlink(S, sj.path, e, idx)
        ELSE copy(S, sj.path, e.Mode, idx, e.Data)

\* the bug of renaming the stored name and replacing the backslashes afterwards
ZipHeader_RenameRaw(S, e, idx) ==
    LET forceDir == HasSuffix(e.Name, <<"\\">>)
        renamed == ReplaceAll(ApplyRename(e.Name), "\\", Sep)
        sj == safeJoin(location, renamed)
    IN  IF renamed = <<>> THEN S
        ELSE IF sj.err THEN S
        ELSE IF e.kind = "dir" \/ forceDir THEN ZipDir(S, sj.path, e, idx)
        ELSE IF e.kind = "symlink" THEN ZipSymlink(S, sj.path, e, idx)
        ELSE copy(S, sj.path, e.Mode, idx, e.Data)

\* the body of Zip's loop for one header of archive.File
ZipHeader(S, e, idx) ==
    LET forceDir == HasSuffix(e.Name, <<"\\">>)
        renamed == ApplyRename(ReplaceAll(e.Name, "\\", Sep))
        sj == safeJoin(location, renamed)
    IN  IF renamed = <<>> THEN S
        ELSE IF sj.err THEN S
        ELSE IF e.kind = "dir" \/ forceDir THEN ZipDir(S, sj.path, e, idx)
        ELSE IF e.kind = "symlink" THEN ZipSymlink(S, sj.path, e, idx)
        ELSE copy(S, sj.path, e.Mode, idx, e.Data)

-----------------------------------------------------------------------------
(* The call, step by step                                                  *)

\* the handler has returned, no call of its is left to a later step
HasReturned(S) == ~S.sliced \/ Len(S.journal) <= Len(S.past) + 1

Finish(S, nextPc, nextK) ==
    /\ fs' = S.fs
    /\ pc' = pc
    /\ IF HasReturned(S)
       THEN /\ journal' = S.journal
            /\ links' = S.links
            /\ symlinks' = S.symlinks
            /\ result' = IF S.err = "none" THEN result ELSE S.err
            /\ k' = IF S.err = "none" THEN nextK ELSE k
            /\ begun' = 0
       ELSE /\ journal' = SubSeq(S.journal, 1, Len(S.past) + 1)
            /\ begun' = begun + 1
            /\ UNCHANGED <<links, symlinks, result, k>>

\* where the handler under way begins: alone at the end of the journal,
\* beside another call before the calls it has made
Here ==
    IF Paired
    THEN [St(fs, SubSeq(journal, 1, Len(journal) - begun), links, symlinks, "none")
             EXCEPT !.sliced = TRUE, !.past = journal]
    ELSE St(fs, journal, links, symlinks, "none")

\* the bug of going on when a hard link could not be made
HardLink_IgnoreError(S, l) ==
    Fail(DoLink(DoRemove(S, l.Path, l.idx, "link"), l.Name, l.Path, l.idx, "link"), "none")

\* _ = e.FS.Remove(links[i].Path), then e.FS.Link(links[i].Name, links[i].Path)
HardLink(S, l) ==
    OrFail(DoLink(DoRemove(S, l.Path, l.idx, "link"), l.Name, l.Path, l.idx, "link"), "link")

\* the bug of making no placeholder
Placeholder_None(S, l) == S

\* the bug of ignoring that the placeholder could not be made
Placeholder_IgnoreError(S, l) ==
    Fail(DoOpenFile(DoRemove(S, l.Path, l.idx, "placeholder"), l.Path, 438, l.idx,
                    "placeholder"), "none")

\* the bug of replacing each placeholder as soon as it is made
Placeholder_ThenLink(S, l) ==
    OrFail(DoSymlink(DoRemove(OrFail(DoOpenFile(DoRemove(S, l.Path, l.idx, "placeholder"),
                                                l.Path, 438, l.idx, "placeholder"),
                                     "placeholder"),
                              l.Path, l.idx, "symlink"),
                     l.Name, l.Path, l.idx, "symlink"), "symlink")

\* _ = e.FS.Remove(symlink.Path), then the placeholder is opened and closed
Placeholder(S, l) ==
    OrFail(DoOpenFile(DoRemove(S, l.Path, l.idx, "placeholder"), l.Path, 438, l.idx,
                      "placeholder"), "placeholder")

\* the bug of leaving the placeholders where they are
RealSymlink_Skipped(S, l) == S

\* _ = e.FS.Remove(symlink.Path), then e.FS.Symlink(symlink.Name, symlink.Path)
RealSymlink(S, l) ==
    OrFail(DoSymlink(DoRemove(S, l.Path, l.idx, "symlink"), l.Name, l.Path, l.idx,
                     "symlink"), "symlink")

\* The body is sized by seeking, or read whole into a buffer by copyCancel,
\* whose error is dropped: cancelled, the buffer is cut short.  Then
\* zip.NewReader reads the central directory, or the call fails with "Read
\* the zip file" (or with the seek error).
ZipOpen ==
    /\ format = "zip" /\ pc = "open" /\ result = "running"
    /\ IF valid /\ (seekable \/ ~cancelled)
       THEN pc' = "entries" /\ result' = result
       ELSE pc' = pc /\ result' = "zip"
    /\ UNCHANGED <<format, seekable, valid, location, rename, fs, archive, k, links, symlinks,
                   journal, cancelled, cancelAt, sjArg, sjOut, cp, mt, message, other, begun,
                   enforce>>

\* how many entries an archive has at most, and which
EntryBound == IF Paired THEN MaxPairEntries ELSE MaxEntries

TarEntries == IF Paired THEN PairPool ELSE IF enforce THEN ModePool ELSE TarPool

ZipEntries ==
    IF Paired THEN { e \in PairPool : e.kind # "link" }
    ELSE IF enforce THEN ModePool ELSE ZipPool

\* one turn of Tar's loop: ctx is polled, then tr.Next() ends the stream,
\* fails, or yields a header
TarNext ==
    /\ format = "tar" /\ pc = "entries" /\ result = "running"
    /\ \/ /\ cancelled
          /\ result' = "interrupted"
          /\ UNCHANGED <<begun, fs, archive, pc, k, links, symlinks, journal>>
       \/ /\ ~cancelled /\ begun = 0
          /\ pc' = "links" /\ k' = 1
          /\ UNCHANGED <<begun, fs, archive, links, symlinks, journal, result>>
       \/ /\ ~cancelled /\ begun = 0
          /\ result' = "tar"
          /\ UNCHANGED <<begun, fs, archive, pc, k, links, symlinks, journal>>
       \/ /\ ~cancelled /\ begun = 0
          /\ Len(archive) < EntryBound
          /\ \E e \in TarEntries :
                /\ archive' = Append(archive, e)
                /\ Finish(TarHeader(Here, e, Len(archive) + 1), pc, k)
       \/ /\ begun > 0
          /\ archive' = archive
          /\ Finish(TarHeader(Here, archive[Len(archive)], Len(archive)), pc, k)
    /\ UNCHANGED <<format, seekable, valid, location, rename, cancelled, cancelAt,
                   sjArg, sjOut, cp, mt, message, other, enforce>>

\* one turn of Zip's loop over archive.File: ctx is polled only when there
\* is a header left
ZipNext ==
    /\ format = "zip" /\ pc = "entries" /\ result = "running"
    /\ \/ /\ begun = 0
          /\ pc' = "placeholders" /\ k' = 1
          /\ UNCHANGED <<begun, fs, archive, links, symlinks, journal, result>>
       \/ /\ begun > 0
          /\ archive' = archive
          /\ Finish(ZipHeader(Here, archive[Len(archive)], Len(archive)), pc, k)
       \/ /\ begun = 0
          /\ Len(archive) < EntryBound
          /\ \E e \in ZipEntries :
                IF cancelled
                THEN /\ result' = "interrupted"
                     /\ UNCHANGED <<begun, fs, archive, pc, k, links, symlinks, journal>>
                ELSE /\ archive' = Append(archive, e)
                     /\ Finish(ZipHeader(Here, e, Len(archive) + 1), pc, k)
    /\ UNCHANGED <<format, seekable, valid, location, rename, cancelled, cancelAt,
                   sjArg, sjOut, cp, mt, message, other, enforce>>

\* Tar's second pass, one pending hard link per turn: Remove, then Link
LinkStep ==
    /\ pc = "links" /\ result = "running"
    /\ IF k > Len(links)
       THEN /\ pc' = "placeholders" /\ k' = 1
            /\ UNCHANGED <<begun, fs, links, symlinks, journal, result>>
       ELSE IF cancelled
       THEN /\ result' = "interrupted"
            /\ UNCHANGED <<begun, fs, pc, k, links, symlinks, journal>>
       ELSE Finish(HardLink(Here, links[k]), pc, k + 1)
    /\ UNCHANGED <<format, seekable, valid, location, rename, archive, cancelled, cancelAt,
                   sjArg, sjOut, cp, mt, message, other, enforce>>

\* extractSymlinks, first loop: Remove, then an empty file as placeholder
PlaceholderStep ==
    /\ pc = "placeholders" /\ result = "running"
    /\ IF k > Len(symlinks)
       THEN /\ pc' = "symlinks" /\ k' = 1
            /\ UNCHANGED <<begun, fs, links, symlinks, journal, result>>
       ELSE IF cancelled
       THEN /\ result' = "interrupted"
            /\ UNCHANGED <<begun, fs, pc, k, links, symlinks, journal>>
       ELSE Finish(Placeholder(Here, symlinks[k]), pc, k + 1)
    /\ UNCHANGED <<format, seekable, valid, location, rename, archive, cancelled, cancelAt,
                   sjArg, sjOut, cp, mt, message, other, enforce>>

\* extractSymlinks, second loop: Remove, then Symlink; the call returns nil
\* after the last one
SymlinkStep ==
    /\ pc = "symlinks" /\ result = "running"
    /\ IF k > Len(symlinks)
       THEN /\ pc' = "end" /\ result' = "ok"
            /\ UNCHANGED <<begun, fs, k, links, symlinks, journal>>
       ELSE IF cancelled
       THEN /\ result' = "interrupted"
            /\ UNCHANGED <<begun, fs, pc, k, links, symlinks, journal>>
       ELSE Finish(RealSymlink(Here, symlinks[k]), pc, k + 1)
    /\ UNCHANGED <<format, seekable, valid, location, rename, archive, cancelled, cancelAt,
                   sjArg, sjOut, cp, mt, message, other, enforce>>

\* where a call of the function handling this kind begins
StartPc(kind) ==
    IF kind = "zip" THEN "open" ELSE IF kind = "tar" THEN "entries" ELSE "decompress"

Kinds == {"zip", "gz", "bz2", "xz", "zst", "tar"}

\* what filetype.Match may tell besides: nothing known to it, or a type
\* that is no archive
OtherKinds == {"unknown", "png"}

\* errors.New("Not a supported archive: " + kind.Extension)
NotSupported(kind) == <<"Not a supported archive: ", kind>>

\* Extractor.Archive: match tells the kind and the function for it is
\* called, or the call fails with "Not a supported archive"
ArchiveMatch ==
    /\ format = "archive" /\ pc = "match" /\ result = "running"
    /\ \/ \E kind \in Kinds :
            /\ format' = kind /\ pc' = StartPc(kind) /\ result' = result
            /\ message' = message
       \/ \E kind \in OtherKinds :
            /\ format' = format /\ pc' = pc /\ result' = "unsupported"
            /\ message' = NotSupported(kind)
    /\ UNCHANGED <<seekable, valid, location, rename, fs, archive, k, links, symlinks,
                   journal, cancelled, cancelAt, sjArg, sjOut, cp, mt, other, begun, enforce>>

\* the payloads of a compressed stream that is not a tar
Bodies == { <<>>, <<7>> }

\* err = e.copy(ctx, location, 0666, body); return err
FinishSingle(S) ==
    /\ fs' = S.fs
    /\ journal' = S.journal
    /\ result' = IF S.err = "none" THEN "ok" ELSE S.err
    /\ pc' = IF S.err = "none" THEN "end" ELSE pc

\* the bug of making the destination before the stream is decoded
DecodeFails_AfterMkdir(S) == Fail(DoMkdirAll(S, location, 493, 0, "copy"), "detect")

\* the reader of the compressed stream cannot be made, or the first read
\* of match fails: the error is returned
DecodeFails(S) == Fail(S, "detect")

\* Extractor.Gz, Bz2, Xz, Zstd: the reader cannot be opened or its payload
\* not be told, or the payload is a tar and Tar is called on it, or it is
\* copied to location as one file with mode 0666
Decompress ==
    /\ format \in {"gz", "bz2", "xz", "zst"} /\ pc = "decompress" /\ result = "running"
    /\ \/ /\ FinishSingle(DecodeFails(Here))
          /\ format' = format
       \/ /\ format' = "tar" /\ pc' = "entries"
          /\ UNCHANGED <<fs, journal, result>>
       \/ \E src \in Bodies :
            /\ FinishSingle(copy(Here, location, 438, 0, src))
            /\ format' = format
    /\ UNCHANGED <<seekable, valid, location, rename, archive, k, links, symlinks,
                   cancelled, cancelAt, sjArg, sjOut, cp, mt, message, other, begun, enforce>>

\* a pending link is still to be made, or its placeholder
PendingLeft ==
    CASE pc \in {"match", "decompress", "open", "entries"} ->
            links # <<>> \/ symlinks # <<>>
      [] pc = "links" -> k <= Len(links) \/ symlinks # <<>>
      [] pc = "placeholders" -> symlinks # <<>>
      [] pc = "symlinks" -> k <= Len(symlinks)
      [] OTHER -> FALSE

\* the caller cancels the context while the call runs
Cancel ==
    /\ pc # "study" /\ result = "running" /\ ~cancelled
    /\ cancelled' = TRUE
    /\ cancelAt' = [start |-> FALSE, n |-> Len(archive), j |-> Len(journal),
                    left |-> PendingLeft]
    /\ UNCHANGED <<format, seekable, valid, location, rename, fs, archive, pc, k, links, symlinks,
                   journal, result, sjArg, sjOut, cp, mt, message, other, begun, enforce>>

SjIdle == [done |-> FALSE, path |-> <<>>, err |-> FALSE]

\* data is the stream, seek whether it is an io.Seeker, caller the function
\* that calls match; pos is how far the stream was read, head the bytes put
\* before it again, out what was read of the reader match returned
MtIdle ==
    [data |-> <<>>, seek |-> FALSE, caller |-> "none", state |-> "idle", pos |-> 0,
     head |-> <<>>, out |-> <<>>, eof |-> FALSE, kind |-> "unknown", outcome |-> "none"]

\* src is the source, pos what was read of it, dst what was written, at the
\* value of pos when the copy was cancelled
CpIdle ==
    [src |-> <<>>, pos |-> 0, dst |-> <<>>, state |-> "idle", cancel |-> FALSE, at |-> 0]

NotCancelled == [start |-> FALSE, n |-> 0, j |-> 0, left |-> FALSE]

\* the arguments of one call: the destination as the caller spells it and
\* the Renamer
Scenarios ==
    { <<LocTD, "nil">>, <<LocTD, "shift">>, <<LocTD, "up">>,
      <<LocTD \o <<Sep>>, "nil">> }

InitCall(f) ==
    /\ format \in {"tar", "zip"}
    /\ \E sc \in Scenarios : location = sc[1] /\ rename = sc[2]
    /\ fs = f
    /\ archive = <<>>
    /\ pc = IF format = "zip" THEN "open" ELSE "entries"
    /\ k = 1
    /\ links = <<>>
    /\ symlinks = <<>>
    /\ journal = <<>>
    /\ result = "running"
    /\ cancelled = FALSE
    /\ cancelAt = NotCancelled
    /\ seekable = TRUE
    /\ valid \in IF format = "zip" THEN BOOLEAN ELSE {TRUE}
    /\ sjArg = <<<<>>, <<>>>>
    /\ sjOut = SjIdle
    /\ cp = CpIdle /\ mt = MtIdle /\ message = <<>> /\ other = NoOther /\ begun = 0

\* a call of Tar or Zip on a destination holding no symbolic link
Init == InitCall(FreshFs) /\ enforce = FALSE

\* a call of Tar or Zip on a destination in which a symbolic link was left
InitLinked == InitCall(LinkedFs) /\ enforce = FALSE

\* a call of Tar or Zip by a user who is not root, on an archive of
\* regular files with various permission bits
InitModes == InitCall(FreshFs) /\ enforce = TRUE

Next == ZipOpen \/ TarNext \/ ZipNext \/ LinkStep \/ PlaceholderStep \/ SymlinkStep \/ Cancel

Spec == Init /\ [][Next]_vars

SpecLinked == InitLinked /\ [][Next]_vars

SpecModes == InitModes /\ [][Next]_vars

LocTM == <<"/", "t", "/", "m">>

\* the call that waits, as it is when it begins
Waiting(f) ==
    [NoOther EXCEPT !.id = 2, !.format = f, !.location = LocTM, !.result = "running",
                    !.pc = IF f = "zip" THEN "open" ELSE "entries"]

\* two calls of Tar or Zip begin, one on /t/d and one on /t/m
InitPair ==
    /\ format \in {"tar", "zip"}
    /\ location = LocTD /\ rename = "nil"
    /\ other \in { Waiting(f) : f \in {"tar", "zip"} }
    /\ fs = FreshFs
    /\ archive = <<>>
    /\ pc = IF format = "zip" THEN "open" ELSE "entries"
    /\ k = 1
    /\ links = <<>> /\ symlinks = <<>> /\ journal = <<>>
    /\ result = "running"
    /\ cancelled = FALSE /\ cancelAt = NotCancelled
    /\ seekable = TRUE /\ valid = TRUE
    /\ sjArg = <<<<>>, <<>>>> /\ sjOut = SjIdle
    /\ cp = CpIdle /\ mt = MtIdle /\ message = <<>> /\ begun = 0 /\ enforce = FALSE

\* the bug of one queue of pending links for all the calls of an Extractor
Yield_SharedQueue ==
    /\ Paired
    /\ other' = [id |-> 3 - other.id, format |-> format, location |-> location,
                 rename |-> rename, archive |-> archive, pc |-> pc, k |-> k,
                 links |-> links, symlinks |-> symlinks, journal |-> journal,
                 result |-> result, begun |-> begun,
                 mixed |-> other.mixed \/ begun > 0]
    /\ format' = other.format /\ location' = other.location /\ rename' = other.rename
    /\ archive' = other.archive /\ pc' = other.pc /\ k' = other.k
    /\ journal' = other.journal /\ result' = other.result /\ begun' = other.begun
    /\ UNCHANGED <<seekable, valid, fs, links, symlinks, cancelled, cancelAt, sjArg, sjOut,
                   cp, mt, message, enforce>>

\* the scheduler lets the other call run: the call that ran waits as it is,
\* the filesystem is the one both work on
Yield ==
    /\ Paired
    /\ other' = [id |-> 3 - other.id, format |-> format, location |-> location,
                 rename |-> rename, archive |-> archive, pc |-> pc, k |-> k,
                 links |-> links, symlinks |-> symlinks, journal |-> journal,
                 result |-> result, begun |-> begun,
                 mixed |-> other.mixed \/ begun > 0]
    /\ format' = other.format /\ location' = other.location /\ rename' = other.rename
    /\ archive' = other.archive /\ pc' = other.pc /\ k' = other.k
    /\ links' = other.links /\ symlinks' = other.symlinks
    /\ journal' = other.journal /\ result' = other.result /\ begun' = other.begun
    /\ UNCHANGED <<seekable, valid, fs, cancelled, cancelAt, sjArg, sjOut, cp, mt, message,
                   enforce>>

NextPair ==
    ZipOpen \/ TarNext \/ ZipNext \/ LinkStep \/ PlaceholderStep \/ SymlinkStep \/ Yield

SpecPair == InitPair /\ [][NextPair]_vars

\* a context cancelled before the call
CancelledAtStart == [start |-> TRUE, n |-> 0, j |-> 0, left |-> FALSE]

\* a call of any public function of Extractor, on a body that can be sought
\* or not, with a context that is cancelled already or not
InitOps ==
    /\ format \in Kinds \cup {"archive"}
    /\ seekable \in IF format \in {"zip", "archive"} THEN BOOLEAN ELSE {TRUE}
    /\ valid \in IF format \in {"zip", "archive"} THEN BOOLEAN ELSE {TRUE}
    /\ \E sc \in Scenarios : location = sc[1] /\ rename = sc[2]
    /\ fs = FreshFs
    /\ archive = <<>>
    /\ pc = IF format = "archive" THEN "match" ELSE StartPc(format)
    /\ k = 1
    /\ links = <<>>
    /\ symlinks = <<>>
    /\ journal = <<>>
    /\ result = "running"
    /\ cancelled \in BOOLEAN
    /\ cancelAt = IF cancelled THEN CancelledAtStart ELSE NotCancelled
    /\ sjArg = <<<<>>, <<>>>>
    /\ sjOut = SjIdle
    /\ cp = CpIdle /\ mt = MtIdle /\ message = <<>> /\ other = NoOther /\ begun = 0
    /\ enforce = FALSE

NextOps == ArchiveMatch \/ Decompress \/ Next

SpecOps == InitOps /\ [][NextOps]_vars

-----------------------------------------------------------------------------
(* safeJoin on its own: the roots and candidates of TestSafeJoin, and more *)

SjPath == <<"/", "p", "a", "t", "h">>

SjSubdir == SjPath \o <<"/", "s", "u", "b", "d", "i", "r">>

SjRoots ==
    { <<Sep>>, SjPath, SjPath \o <<Sep>>, SjSubdir, SjSubdir \o <<Sep>> }

SjUp == <<".", ".">>

SjUpPathpath == <<".", ".", "/", "p", "a", "t", "h", "p", "a", "t", "h">>

SjMorePath == <<"m", "o", "r", "e", "/", "p", "a", "t", "h">>

SjCandidates ==
    { SjUp, SjUpPathpath, SjMorePath,
      <<"a">>, <<"/", "a">>, <<".">>, <<>>,
      <<"a", "/", ".", ".">>,
      <<"a", "/", ".", ".", "/", ".", ".">>,
      <<".", ".", "/", "p", "a", "t", "h">>,
      <<".", ".", "/", "s", "u", "b", "d", "i", "r", "/", "x">>,
      <<".", ".", "/", ".", ".", "/", "p", "a", "t", "h", "/", "x">> }

SjInit ==
    /\ sjArg \in SjRoots \X SjCandidates
    /\ sjOut = SjIdle
    /\ format = "none" /\ location = <<>> /\ rename = "nil"
    /\ fs = FreshFs /\ archive = <<>> /\ pc = "study" /\ k = 1
    /\ links = <<>> /\ symlinks = <<>> /\ journal = <<>>
    /\ result = "running" /\ cancelled = FALSE /\ cancelAt = NotCancelled
    /\ seekable = TRUE /\ valid = TRUE /\ cp = CpIdle /\ mt = MtIdle /\ message = <<>>
    /\ other = NoOther /\ begun = 0 /\ enforce = FALSE

\* safeJoin is called on the pair
SjCall ==
    /\ pc = "study" /\ ~sjOut.done
    /\ sjOut' = [done |-> TRUE] @@ safeJoin(sjArg[1], sjArg[2])
    /\ UNCHANGED <<callVars, sjArg, cp, mt, message>>

SjNext == SjCall

SafeJoinSpec == SjInit /\ [][SjNext]_vars

\* destinations as a caller may spell them: relative, with "." or ".."
\* elements, empty; and /p, spelled as filepath.Clean leaves it
SjSpelledRoots ==
    { <<".", "/", "o">>, <<"o">>, <<>>, <<".">>,
      <<"/", "p", "/", ".", ".", "/", "q">>, <<"/", "p", "/", ".", "/", "q">>,
      <<".", ".", "/", "o">>, <<"o", "/", ".", ".", "/", "q">>, <<"/", "p">> }

\* names of entries made of ordinary elements only
SjOrdinary ==
    { <<"f">>, <<"a", "/", "f">>, <<"a", "/", "b">>, <<"a", "/", "b", "/", "f">>,
      SjMorePath, <<"a", ".", "b">>, <<"a", "/">> }

SjSpelledInit ==
    /\ sjArg \in SjSpelledRoots \X SjOrdinary
    /\ sjOut = SjIdle
    /\ format = "none" /\ location = <<>> /\ rename = "nil"
    /\ fs = FreshFs /\ archive = <<>> /\ pc = "study" /\ k = 1
    /\ links = <<>> /\ symlinks = <<>> /\ journal = <<>>
    /\ result = "running" /\ cancelled = FALSE /\ cancelAt = NotCancelled
    /\ seekable = TRUE /\ valid = TRUE /\ cp = CpIdle /\ mt = MtIdle /\ message = <<>>
    /\ other = NoOther /\ begun = 0 /\ enforce = FALSE

SafeJoinSpelledSpec == SjSpelledInit /\ [][SjNext]_vars

-----------------------------------------------------------------------------
(* copyCancel on its own: io.Copy from a cancelableReader                  *)

MaxSrcLen == 3

MaxChunk == 2

Bytes == {0, 1}

Sources == UNION { [1..n -> Bytes] : n \in 0..MaxSrcLen }

Min(a, b) == IF a < b THEN a ELSE b

\* src.Read(p): some bytes, at most a buffer of them, and the end of the
\* data told with the last bytes or by a read that returns none
SrcRead(c) ==
    { [n |-> n, err |-> "nil"] : n \in 1..Min(MaxChunk, Len(c.src) - c.pos) }
    \cup { [n |-> n, err |-> "EOF"] :
             n \in { m \in 0..MaxChunk : m = Len(c.src) - c.pos } }

\* the bug of reading without looking at the signal
Read_NoPoll(c) == SrcRead(c)

\* cancelableReader.Read: the signal is looked at first
Read(c) ==
    IF c.cancel THEN { [n |-> 0, err |-> "interrupted"] } ELSE SrcRead(c)

\* io.Copy after the read r: the bytes read are written, and the copy goes
\* on, ends, or fails with the error of the read
Copied(c, r) ==
    [c EXCEPT !.pos = c.pos + r.n,
              !.dst = c.dst \o SubSeq(c.src, c.pos + 1, c.pos + r.n),
              !.state = IF r.err = "nil" THEN "copying"
                        ELSE IF r.err = "EOF" THEN "ok" ELSE "interrupted"]

CpInit ==
    /\ cp \in { [CpIdle EXCEPT !.src = src, !.state = "copying"] : src \in Sources }
    /\ sjArg = <<<<>>, <<>>>> /\ sjOut = SjIdle
    /\ format = "none" /\ location = <<>> /\ rename = "nil"
    /\ fs = FreshFs /\ archive = <<>> /\ pc = "study" /\ k = 1
    /\ links = <<>> /\ symlinks = <<>> /\ journal = <<>>
    /\ result = "running" /\ cancelled = FALSE /\ cancelAt = NotCancelled
    /\ seekable = TRUE /\ valid = TRUE /\ mt = MtIdle /\ message = <<>>
    /\ other = NoOther /\ begun = 0 /\ enforce = FALSE

\* one turn of io.Copy's loop
CpRead ==
    /\ pc = "study" /\ cp.state = "copying"
    /\ \E r \in Read(cp) : cp' = Copied(cp, r)
    /\ UNCHANGED <<callVars, sjArg, sjOut, mt, message>>

\* the caller signals the cancellation while the copy runs
CpCancel ==
    /\ pc = "study" /\ cp.state = "copying" /\ ~cp.cancel
    /\ cp' = [cp EXCEPT !.cancel = TRUE, !.at = cp.pos]
    /\ UNCHANGED <<callVars, sjArg, sjOut, mt, message>>

CpNext == CpRead \/ CpCancel

CopySpec == CpInit /\ [][CpNext]_vars

-----------------------------------------------------------------------------
(* match on its own, and what Archive and the functions of the compressed  *)
(* kinds do with the kind it tells                                         *)

\* buffer := make([]byte, 512)
BufSize == 512

Zeros(n) == [i \in 1..n |-> 0]

\* the bytes "ustar" that a tar header has from offset 257 on
Ustar == <<117, 115, 116, 97, 114>>

UstarOffset == 257

\* a tar of one file and its end: 'f', the magic of the header, 1024 bytes
TarStream ==
    [i \in 1..1024 |->
        IF i = 1 THEN 102
        ELSE IF i > UstarOffset /\ i <= UstarOffset + Len(Ustar) THEN Ustar[i - UstarOffset]
        ELSE 0]

\* "not an archive", the stream of TestArchiveFailure
NotAnArchive == <<110, 111, 116, 32, 97, 110, 32, 97, 114, 99, 104, 105, 118, 101>>

XzMagic == <<253, 55, 122, 88, 90, 0>>

\* the streams match is given: nothing, text, the start of each kind of
\* archive, a picture, a tar, a text longer than the buffer, and the five
\* bytes with which the magic of xz begins
Streams ==
    { <<>>,
      NotAnArchive,
      <<80, 75, 3, 4, 20, 0>>,
      <<31, 139, 8, 0>>,
      <<66, 90, 104, 57>>,
      XzMagic \o <<0, 4>>,
      <<40, 181, 47, 253, 4>>,
      <<137, 80, 78, 71>>,
      TarStream,
      [i \in 1..600 |-> 97],
      SubSeq(XzMagic, 1, 5) }

\* the buffer of match after a read of the bytes s: the rest of it is zero
Pad(s) == [i \in 1..BufSize |-> IF i <= Len(s) THEN s[i] ELSE 0]

HasAt(buf, off, magic) ==
    Len(buf) >= off + Len(magic) /\ SubSeq(buf, off + 1, off + Len(magic)) = magic

\* the matchers of filetype for the kinds Archive knows, and one other
Matches(buf) ==
    { kind \in Kinds \cup {"png"} :
        CASE kind = "zip" -> /\ HasAt(buf, 0, <<80, 75>>) /\ Len(buf) > 3
                             /\ buf[3] \in {3, 5, 7} /\ buf[4] \in {4, 6, 8}
          [] kind = "gz"  -> HasAt(buf, 0, <<31, 139, 8>>)
          [] kind = "bz2" -> HasAt(buf, 0, <<66, 90, 104>>)
          [] kind = "xz"  -> HasAt(buf, 0, XzMagic)
          [] kind = "zst" -> HasAt(buf, 0, <<40, 181, 47, 253>>)
          [] kind = "tar" -> HasAt(buf, UstarOffset, Ustar)
          [] OTHER        -> HasAt(buf, 0, <<137, 80, 78, 71>>) }

\* filetype.Match: the type of a matcher that matches, Unknown when none does
Classify(buf) == IF Matches(buf) = {} THEN {"unknown"} ELSE Matches(buf)

\* n, err := r.Read(buffer): a read returns between one byte and a buffer
\* of them, as the reader pleases; at the end of the data, none
FirstReads(data) ==
    IF data = <<>> THEN {0}
    ELSE { n \in {1, 5, 100, BufSize} : n <= Len(data) } \cup {Min(BufSize, Len(data))}

\* the reader match returns: the stream rewound, or the bytes read and then
\* the rest of the stream
Returned(m, n) ==
    IF m.seek THEN [m EXCEPT !.pos = 0, !.head = <<>>]
    ELSE [m EXCEPT !.pos = n, !.head = SubSeq(m.data, 1, n)]

MtInit ==
    /\ mt \in { [MtIdle EXCEPT !.data = d, !.seek = sk, !.caller = c] :
                    d \in Streams, sk \in BOOLEAN, c \in {"archive", "wrapper"} }
    /\ message = <<>> /\ other = NoOther /\ begun = 0 /\ enforce = FALSE
    /\ cp = CpIdle /\ sjArg = <<<<>>, <<>>>> /\ sjOut = SjIdle
    /\ format = "none" /\ location = <<>> /\ rename = "nil"
    /\ fs = FreshFs /\ archive = <<>> /\ pc = "study" /\ k = 1
    /\ links = <<>> /\ symlinks = <<>> /\ journal = <<>>
    /\ result = "running" /\ cancelled = FALSE /\ cancelAt = NotCancelled
    /\ seekable = TRUE /\ valid = TRUE

\* match(r): the read fails, or the seek does, or the kind is told from
\* the whole buffer and the reader returned
MtMatch ==
    /\ pc = "study" /\ mt.state = "idle"
    /\ \/ mt' = [mt EXCEPT !.state = "error"]
       \/ \E n \in FirstReads(mt.data) :
            \E kind \in Classify(Pad(SubSeq(mt.data, 1, n))) :
                mt' = [Returned(mt, n) EXCEPT !.state = "matched", !.kind = kind]
    /\ UNCHANGED <<callVars, sjArg, sjOut, cp, message>>

\* the sizes of a read of rem bytes that are left
ChunkSizes(rem) ==
    {rem} \cup (IF rem > BufSize THEN {BufSize} ELSE {})
          \cup (IF rem > 1 /\ rem <= 8 THEN {1} ELSE {})

\* a read of the reader match returned: from the bytes put before the
\* stream while there are some, then from the stream, then the end
MtRead ==
    /\ pc = "study" /\ mt.state = "matched" /\ ~mt.eof
    /\ IF mt.head # <<>>
       THEN \E c \in ChunkSizes(Len(mt.head)) :
                mt' = [mt EXCEPT !.out = @ \o SubSeq(mt.head, 1, c),
                                 !.head = SubSeq(mt.head, c + 1, Len(mt.head))]
       ELSE IF mt.pos < Len(mt.data)
       THEN \E c \in ChunkSizes(Len(mt.data) - mt.pos) :
                mt' = [mt EXCEPT !.out = @ \o SubSeq(mt.data, mt.pos + 1, mt.pos + c),
                                 !.pos = mt.pos + c]
       ELSE mt' = [mt EXCEPT !.eof = TRUE]
    /\ UNCHANGED <<callVars, sjArg, sjOut, cp, message>>

\* Archive drops the error of match and switches on the kind; Gz, Bz2, Xz
\* and Zstd return the error, call Tar for a tar and copy anything else
MtDispatch ==
    /\ pc = "study" /\ mt.state \in {"matched", "error"} /\ mt.outcome = "none"
    /\ IF mt.caller = "archive"
       THEN IF mt.kind \in Kinds
            THEN mt' = [mt EXCEPT !.outcome = mt.kind] /\ message' = message
            ELSE mt' = [mt EXCEPT !.outcome = "unsupported"]
                 /\ message' = NotSupported(mt.kind)
       ELSE /\ mt' = [mt EXCEPT !.outcome = IF mt.state = "error" THEN "detect"
                                            ELSE IF mt.kind = "tar" THEN "tar"
                                            ELSE "single"]
            /\ message' = message
    /\ UNCHANGED <<callVars, sjArg, sjOut, cp>>

MtNext == MtMatch \/ MtRead \/ MtDispatch

MatchSpec == MtInit /\ [][MtNext]_vars

-----------------------------------------------------------------------------
(* ZipCancel of the functions that take a channel: the checkpoints receive *)
(* from cancel, a <-chan bool.  The calls on the file system are recorded  *)
(* by their names; k counts the turns of the three loops together.         *)

ZcPool ==
    { Entry("dir", <<"a">>, <<>>, 493),
      File(<<"f">>, 420, <<1>>),
      Entry("symlink", <<"s">>, <<"x">>, 511) }

\* files = append(files, ...) and links = append(links, ...) of the first
\* pass: the entries of the kind, in the order of the archive
ZcKept(kind) == SelectSeq(archive, LAMBDA e : e.kind = kind)

\* the turns of the loop of the headers, of the files and of the links
ZcTurns == Len(archive) + Len(ZcKept("reg")) + Len(ZcKept("symlink"))

\* case <-cancel: the receive takes a value that was sent out of the
\* channel; from a closed channel every receive succeeds
Received(c) == [c EXCEPT !.cancel = c.closed]

zcFixed == <<format, seekable, valid, location, rename, fs, archive, links, symlinks, sjArg,
             sjOut, mt, message, other, begun, enforce>>

ZcInit ==
    /\ cp \in { [src |-> src, pos |-> 0, dst |-> <<>>, state |-> "copying",
                 cancel |-> FALSE, at |-> 0, closed |-> FALSE] :
                   src \in Sources \ {<<>>} }
    /\ archive \in UNION { [1..n -> ZcPool] : n \in 0..MaxPairEntries }
    /\ valid \in BOOLEAN
    /\ pc = "buffer" /\ k = 1 /\ result = "running"
    /\ format = "zip" /\ seekable = FALSE /\ location = LocTD /\ rename = "nil"
    /\ fs = FreshFs /\ links = <<>> /\ symlinks = <<>> /\ journal = <<>>
    /\ cancelled = FALSE /\ cancelAt = NotCancelled
    /\ sjArg = <<<<>>, <<>>>> /\ sjOut = SjIdle /\ mt = MtIdle /\ message = <<>>
    /\ other = NoOther /\ begun = 0 /\ enforce = FALSE

\* the caller raises the signal while the call runs, by sending a value on
\* the channel or by closing it
ZcSignal ==
    /\ result = "running" /\ ~cancelled
    /\ \E how \in {"send", "close"} :
         cp' = [cp EXCEPT !.cancel = TRUE, !.closed = (how = "close"), !.at = cp.pos]
    /\ cancelled' = TRUE
    /\ cancelAt' = [NotCancelled EXCEPT !.start = (pc = "buffer"), !.n = k - 1,
                                        !.j = Len(journal)]
    /\ UNCHANGED <<zcFixed, pc, k, journal, result>>

\* copyCancel(buffer, body, cancel), one turn of its io.Copy; its error is
\* dropped, and zip.NewReader reads the directory at the end of the buffer
ZcBuffer ==
    /\ pc = "buffer" /\ result = "running"
    /\ \E r \in Read(cp) :
         LET c == Copied(cp, r) IN
         /\ cp' = IF r.err = "interrupted" THEN Received(c) ELSE c
         /\ IF c.state = "copying" THEN UNCHANGED <<pc, result>>
            ELSE IF c.dst = c.src /\ valid
                 THEN /\ pc' = "extract"
                      /\ result' = IF ZcTurns = 0 THEN "ok" ELSE "running"
                 ELSE result' = "zip" /\ UNCHANGED pc
    /\ UNCHANGED <<zcFixed, k, journal, cancelled, cancelAt>>

\* for _, header := range archive.File: the select, then the entry by its
\* kind; the data of a file is read to be written in the second pass
ZcHeader ==
    /\ pc = "extract" /\ result = "running" /\ k <= Len(archive)
    /\ IF cp.cancel
       THEN /\ cp' = Received(cp) /\ result' = "interrupted"
            /\ UNCHANGED <<k, journal>>
       ELSE /\ k' = k + 1 /\ result' = IF k = ZcTurns THEN "ok" ELSE "running"
            /\ journal' = IF archive[k].kind = "dir"
                          THEN Append(journal, [op |-> "MkdirAll", idx |-> k])
                          ELSE journal
            /\ UNCHANGED cp
    /\ UNCHANGED <<zcFixed, pc, cancelled, cancelAt>>

\* for i := range files: copy makes the directory and the file, and its
\* copyCancel looks at the signal before it reads
ZcFile ==
    /\ pc = "extract" /\ result = "running"
    /\ k > Len(archive) /\ k <= Len(archive) + Len(ZcKept("reg"))
    /\ LET made == journal \o << [op |-> "MkdirAll", idx |-> k],
                                 [op |-> "OpenFile", idx |-> k] >> IN
       IF cp.cancel
       THEN /\ cp' = Received(cp) /\ result' = "interrupted"
            /\ journal' = made /\ UNCHANGED k
       ELSE /\ k' = k + 1 /\ result' = IF k = ZcTurns THEN "ok" ELSE "running"
            /\ journal' = Append(made, [op |-> "Write", idx |-> k])
            /\ UNCHANGED cp
    /\ UNCHANGED <<zcFixed, pc, cancelled, cancelAt>>

\* for i := range links: the select, then os.Symlink
ZcLink ==
    /\ pc = "extract" /\ result = "running"
    /\ k > Len(archive) + Len(ZcKept("reg")) /\ k <= ZcTurns
    /\ IF cp.cancel
       THEN /\ cp' = Received(cp) /\ result' = "interrupted"
            /\ UNCHANGED <<k, journal>>
       ELSE /\ k' = k + 1 /\ result' = IF k = ZcTurns THEN "ok" ELSE "running"
            /\ journal' = Append(journal, [op |-> "Symlink", idx |-> k])
            /\ UNCHANGED cp
    /\ UNCHANGED <<zcFixed, pc, cancelled, cancelAt>>

ZcNext == ZcSignal \/ ZcBuffer \/ ZcHeader \/ ZcFile \/ ZcLink

ZipCancelSpec == ZcInit /\ [][ZcNext]_vars

-----------------------------------------------------------------------------
(* C2: safeJoin(root, candidate) succeeds exactly when the cleaned lexical *)
(* join of root and candidate has the root, normalised to end with one     *)
(* separator, as a string prefix, and fails otherwise; for the roots       *)
(* /path, /path/, /path/subdir and /path/subdir/ the candidates ".." and   *)
(* "../pathpath" are rejected and "more/path" is accepted, and for the     *)
(* root "/" all three are accepted.                                        *)

\* the root without its trailing separators, then one separator
RECURSIVE TrimRightSep(_)
TrimRightSep(s) ==
    IF s # <<>> /\ s[Len(s)] = Sep THEN TrimRightSep(SubSeq(s, 1, Len(s) - 1)) ELSE s

EndingWithOneSep(root) == TrimRightSep(root) \o <<Sep>>

C2_SafeJoinContract ==
    sjOut.done =>
        LET root == sjArg[1]
            cand == sjArg[2]
        IN  /\ sjOut.path = Clean(root \o <<Sep>> \o cand)
            /\ ~sjOut.err <=> HasPrefix(sjOut.path, EndingWithOneSep(root))
            /\ (root # <<Sep>> /\ cand \in {SjUp, SjUpPathpath}) => sjOut.err
            /\ cand = SjMorePath => ~sjOut.err
            /\ root = <<Sep>> => ~sjOut.err

\* "../pathpath" from /path: the join /pathpath starts with the characters
\* of the root yet is refused
C2_Witness ==
    /\ sjOut.done /\ sjArg = <<SjPath, SjUpPathpath>>
    /\ sjOut.err /\ HasPrefix(sjOut.path, SjPath)

-----------------------------------------------------------------------------
(* What the claims speak of                                                *)

\* the destination as the operating system sees it
RootSegs == PathSegs(location)

\* an object at the resolved path p lies in the destination
InDestination(p) == IsPrefixPath(RootSegs, p)

\* the name of an entry after the Renamer (and, in Zip, after the
\* backslashes were replaced)
RenamedName(e) ==
    IF format = "zip" THEN ApplyRename(ReplaceAll(e.Name, "\\", Sep))
    ELSE ApplyRename(e.Name)

\* where a name leads from the destination, lexically
LexicalTarget(name) == PathSegs(Clean(location \o <<Sep>> \o name))

\* the entry is not skipped by the Renamer and its name leads out of the destination
LeadsOutside(e) ==
    RenamedName(e) # <<>> /\ ~InDestination(LexicalTarget(RenamedName(e)))

\* the entry is kept: its name is not empty and leads into the destination
Kept(e) ==
    /\ RenamedName(e) # <<>>
    /\ InDestination(LexicalTarget(RenamedName(e)))
    /\ LexicalTarget(RenamedName(e)) # RootSegs

OutputSegs(e) == LexicalTarget(RenamedName(e))

Ops == 1..Len(journal)

Entries == 1..Len(archive)

\* errors that do not come from handling an entry or a pending link
Outer == {"running", "ok", "interrupted", "tar", "zip"}

-----------------------------------------------------------------------------
(* C1: during a Tar or Zip call every path handed to the FS capability as  *)
(* the object to create, open, remove, stat, chmod or link (the path of    *)
(* MkdirAll, OpenFile, Remove, Stat and Chmod, both arguments of Link, the *)
(* new name of Symlink) is lexically the destination or has the            *)
(* destination, normalised to end with one separator, as a string prefix;  *)
(* only the target text of Symlink is exempt.                              *)

LexicallyContained(p) ==
    \/ p = Clean(location)
    \/ HasPrefix(p, EndingWithOneSep(location))

C1_PathsContained ==
    \A i \in Ops :
        /\ LexicallyContained(journal[i].path)
        /\ journal[i].op = "link" => LexicallyContained(journal[i].old)

\* a call that made a directory, a file, a hard link and a symbolic link
\* whose target text lies outside
C1_Witness ==
    /\ result = "ok"
    /\ \E i \in Ops : journal[i].op = "link" /\ journal[i].ok
    /\ \E i \in Ops : journal[i].op = "mkdirall" /\ journal[i].path = Clean(location)
    /\ \E i \in Ops : /\ journal[i].op = "symlink" /\ journal[i].ok
                      /\ ~LexicallyContained(journal[i].old)

-----------------------------------------------------------------------------
(* C3: for every Tar or Zip entry whose renamed name leads outside the     *)
(* destination no filesystem operation is issued, the call does not fail   *)
(* on it and goes on with the remaining entries; an archive made only of   *)
(* such entries leaves the journal empty and the call returns no error.    *)

C3_UnsafeEntriesSkipped ==
    /\ \A i \in Entries : LeadsOutside(archive[i]) =>
            /\ \A j \in Ops : journal[j].idx # i
            /\ \A j \in 1..Len(links) : links[j].idx # i
            /\ \A j \in 1..Len(symlinks) : symlinks[j].idx # i
    /\ (pc = "entries" /\ result \notin Outer) =>
            (archive # <<>> /\ ~LeadsOutside(archive[Len(archive)]))
    /\ (\A i \in Entries : LeadsOutside(archive[i])) =>
            (journal = <<>> /\ result \in Outer)

\* an unsafe entry before and after a file that was extracted
C3_Witness ==
    /\ result = "ok" /\ Len(archive) = 3
    /\ LeadsOutside(archive[1]) /\ LeadsOutside(archive[3])
    /\ \E j \in Ops : journal[j].idx = 2 /\ journal[j].op = "open" /\ journal[j].ok

-----------------------------------------------------------------------------
(* C4: when the destination holds no symbolic link at the start of the     *)
(* call, every object a Tar or Zip call creates, truncates, removes or     *)
(* chmods lies, once the operating system has resolved its path, in the    *)
(* destination, whatever symbolic links the archive declares.              *)

C4_TouchedInDestination ==
    \A i \in Ops : \A t \in journal[i].touched : InDestination(t)

IsSymlinkAt(p) == p \in DOMAIN fs /\ fs[p].kind = "symlink"

\* a symbolic link that leaves the destination was made, and another entry
\* of the same name then removed it and made its own
C4_Witness ==
    /\ result = "ok"
    /\ \E p \in DOMAIN fs : /\ fs[p].kind = "symlink"
                            /\ HasPrefix(fs[p].target, <<Sep>>)
                            /\ ~InDestination(PathSegs(fs[p].target))
    /\ \E i \in Ops : /\ journal[i].op = "remove" /\ journal[i].site = "symlink"
                      /\ journal[i].ok

-----------------------------------------------------------------------------
(* C5: when an archive has a symbolic-link entry at P with target X and    *)
(* another symbolic-link entry beneath P, and the destination held no      *)
(* symbolic link at the start, the call does not succeed and no operation  *)
(* for the second entry creates or changes anything in the directory X     *)
(* points to.                                                              *)

IsStrictPrefixPath(p, q) == p # q /\ IsPrefixPath(p, q)

Maze(i, j) ==
    /\ archive[i].kind = "symlink" /\ Kept(archive[i])
    /\ archive[j].kind = "symlink" /\ Kept(archive[j])
    /\ IsStrictPrefixPath(OutputSegs(archive[i]), OutputSegs(archive[j]))

\* the directory the link of entry i points to
PointedTo(i) ==
    LET X == archive[i].Linkname
        P == Clean(location \o <<Sep>> \o RenamedName(archive[i]))
    IN  IF HasPrefix(X, <<Sep>>) THEN PathSegs(Clean(X))
        ELSE PathSegs(Clean(FilepathDir(P) \o <<Sep>> \o X))

\* where entry j would land if the link of entry i were followed
ThroughLink(i, j) ==
    PointedTo(i) \o SubSeq(OutputSegs(archive[j]), Len(OutputSegs(archive[i])) + 1,
                           Len(OutputSegs(archive[j])))

C5_MazeFails ==
    \A i, j \in Entries : Maze(i, j) =>
        /\ result # "ok"
        /\ \A n \in Ops : journal[n].idx = j =>
               \A t \in journal[n].touched : ~IsPrefixPath(ThroughLink(i, j), t)
        /\ ThroughLink(i, j) \notin DOMAIN fs

\* the placeholder of the second entry could not be made under the
\* placeholder of the first, and the call failed there
C5_Witness ==
    /\ Len(archive) = 2 /\ Maze(1, 2)
    /\ ~InDestination(PointedTo(1))
    /\ pc = "placeholders" /\ result = "placeholder"
    /\ \E n \in Ops : /\ journal[n].idx = 2 /\ journal[n].op = "open"
                      /\ ~journal[n].ok
    /\ \A p \in DOMAIN fs : fs[p].kind # "symlink"

-----------------------------------------------------------------------------
(* C6: as long as the entry pass of a Tar or Zip call lasts, and when the  *)
(* call fails or is interrupted in it, no Link and no Symlink has been     *)
(* issued.                                                                 *)

C6_NoLinkInEntryPass ==
    pc \in {"open", "entries"} =>
        \A i \in Ops : journal[i].op \notin {"link", "symlink"}

\* a hard link and a symbolic link are pending, a file was extracted, and
\* the call was interrupted before the entries ended
C6_Witness ==
    /\ pc = "entries" /\ result = "interrupted"
    /\ links # <<>> /\ symlinks # <<>>
    /\ \E i \in Ops : journal[i].op = "open" /\ journal[i].ok

-----------------------------------------------------------------------------
(* C7, as the specification states it: every Link and every Symlink comes  *)
(* after the last OpenFile of a placeholder.                               *)

IsPlaceholderOpen(c) == c.op = "open" /\ c.site = "placeholder"

-----------------------------------------------------------------------------
(* C8, as the specification states it: once a symbolic-link entry with     *)
(* output path P has been read, no later file or directory entry of the    *)
(* archive is created, truncated or removed through a symbolic link at P,  *)
(* one that was at P when the call began included: what such an entry      *)
(* touches beneath P stays beneath P once the path is resolved.            *)

IsEntryPassOp(c) == c.site \in {"dir", "copy"}

C8_NothingThroughLinkAtP ==
    \A i, j \in Entries :
        (i < j /\ archive[i].kind = "symlink" /\ Kept(archive[i])) =>
            \A n \in Ops :
                (/\ journal[n].idx = j
                 /\ IsEntryPassOp(journal[n])
                 /\ IsStrictPrefixPath(OutputSegs(archive[i]), PathSegs(journal[n].path))) =>
                    \A t \in journal[n].touched : IsPrefixPath(OutputSegs(archive[i]), t)

-----------------------------------------------------------------------------
(* C9: the target argument of every Symlink is the link text of the entry  *)
(* (tar Linkname, zip content) character for character, whatever the       *)
(* Renamer and the destination; and a directory followed by a symbolic     *)
(* link to it through ".." is extracted without error, a symbolic link     *)
(* with that text being left under the link's name in the destination.     *)

DirThenLinkToIt ==
    <<Entry("dir", <<"m">>, <<>>, 493),
      Entry("symlink", <<"a">>, <<".", ".", "/", "m">>, 511)>>

C9_TargetVerbatim ==
    /\ \A n \in Ops : journal[n].op = "symlink" =>
            journal[n].old = archive[journal[n].idx].Linkname
    /\ (archive = DirThenLinkToIt /\ rename = "nil" /\ result \notin Outer \ {"ok"}) =>
            /\ result = "ok"
            /\ RootSegs \o <<<<"a">>>> \in DOMAIN fs
            /\ fs[RootSegs \o <<<<"a">>>>].kind = "symlink"
            /\ fs[RootSegs \o <<<<"a">>>>].target = <<".", ".", "/", "m">>

\* the directory and the link to it were extracted
C9_Witness ==
    /\ archive = DirThenLinkToIt /\ rename = "nil" /\ result = "ok"
    /\ IsSymlinkAt(RootSegs \o <<<<"a">>>>)
    /\ \E n \in Ops : /\ journal[n].op = "symlink" /\ journal[n].ok
                      /\ journal[n].old = <<".", ".", "/", "m">>

-----------------------------------------------------------------------------
(* C10: for a tar hard-link entry whose renamed link target leads outside  *)
(* the destination no filesystem operation is issued, neither Remove nor   *)
(* Link, it is not kept as a pending link, and the call does not fail on   *)
(* it; an archive made of such an entry alone ends without error.          *)

TargetLeadsOutside(e) ==
    /\ format = "tar" /\ e.kind = "link" /\ RenamedName(e) # <<>>
    /\ ~InDestination(LexicalTarget(ApplyRename(e.Linkname)))

C10_UnsafeHardLinkDropped ==
    /\ \A i \in Entries : TargetLeadsOutside(archive[i]) =>
            /\ \A n \in Ops : journal[n].idx # i
            /\ \A n \in 1..Len(links) : links[n].idx # i
    /\ (pc = "entries" /\ result \notin Outer) =>
            (archive # <<>> /\ ~TargetLeadsOutside(archive[Len(archive)]))
    /\ (archive # <<>> /\ \A i \in Entries : TargetLeadsOutside(archive[i])) =>
            (journal = <<>> /\ result \in Outer)

\* a hard link to a file of the archive was made, one that leads outside
\* was dropped, and the call ended without error
C10_Witness ==
    /\ result = "ok"
    /\ \E i \in Entries : TargetLeadsOutside(archive[i]) /\ Kept(archive[i])
    /\ \E n \in Ops : journal[n].op = "link" /\ journal[n].ok

-----------------------------------------------------------------------------
(* C14, as the specification states it: the sink holds a prefix of the     *)
(* source; never cancelled, the copy ends with the whole source in the     *)
(* sink; cancelled, it fails with "interrupted", the read that met the     *)
(* signal having read nothing, and strictly fewer bytes than the source    *)
(* has were written.                                                       *)

IsPrefixOf(a, b) == Len(a) <= Len(b) /\ SubSeq(b, 1, Len(a)) = a

CopyIsPrefix ==
    /\ IsPrefixOf(cp.dst, cp.src)
    /\ Len(cp.dst) = cp.pos
    /\ (~cp.cancel /\ cp.state # "copying") => (cp.state = "ok" /\ cp.dst = cp.src)
    /\ cp.cancel => (cp.state \in {"copying", "interrupted"} /\ cp.pos = cp.at)
    /\ cp.state = "interrupted" => cp.cancel

C14_StrictlyFewer ==
    /\ CopyIsPrefix
    /\ cp.state = "interrupted" => Len(cp.dst) < Len(cp.src)

(* C14, as the code has it: the same, but a cancelled copy has written     *)
(* exactly the bytes read before the signal, which are fewer than the      *)
(* source has only when the signal came before the last byte was read: a   *)
(* copy cancelled between the last byte and the end of the data fails with *)
(* "interrupted" with the whole source in the sink.                        *)

C14_PrefixReadBeforeSignal ==
    /\ CopyIsPrefix
    /\ cp.state = "interrupted" =>
            /\ cp.dst = SubSeq(cp.src, 1, cp.at)
            /\ Len(cp.dst) < Len(cp.src) <=> cp.at < Len(cp.src)

\* cancelled in the middle: some bytes are in the sink, not all
C14_Witness ==
    /\ cp.state = "interrupted"
    /\ 0 < Len(cp.dst) /\ Len(cp.dst) < Len(cp.src)

-----------------------------------------------------------------------------
(* C11, as the specification states it: a call of Archive, Tar, Zip (on a  *)
(* body that can be sought or not), Gz, Bz2, Xz or Zstd (tar or one-file   *)
(* payload) made with the context already cancelled creates, truncates and *)
(* removes nothing and returns "interrupted".  A body that is no archive   *)
(* at all may still be refused with the error saying so.                   *)

Ended == result # "running"

\* the body is refused: no supported kind, a stream that cannot be
\* decompressed, a zip file that is none
Refused == result \in {"unsupported", "detect"} \/ (result = "zip" /\ ~valid)

C11_CancelledAtStart ==
    cancelAt.start =>
        /\ \A n \in Ops : journal[n].touched = {}
        /\ Ended => (result = "interrupted" \/ Refused)

-----------------------------------------------------------------------------
(* C12, as the specification states it: when the context is cancelled      *)
(* during a Tar or Zip call, at most one further entry is handled and at   *)
(* most one further pending link or placeholder made, and the call then    *)
(* returns "interrupted", unless no entry and no pending link was left.    *)

AfterCancel == { n \in Ops : n > cancelAt.j }

C12_InterruptedAfterCancel ==
    (cancelled /\ ~cancelAt.start /\ format \in {"tar", "zip"}) =>
        /\ Len(archive) <= cancelAt.n + 1
        /\ \A m, n \in AfterCancel : journal[m].idx = journal[n].idx
        /\ Ended => \/ result = "interrupted"
                    \/ result = "ok" /\ ~cancelAt.left /\ Len(archive) = cancelAt.n
                    \/ Refused

-----------------------------------------------------------------------------
(* C13, as the specification states it: a call made with the context       *)
(* already cancelled never returns without error, whatever the body, an    *)
(* archive without entries included.                                       *)

C13_NeverOkWhenCancelledAtStart == cancelAt.start => result # "ok"

-----------------------------------------------------------------------------
(* C15, as the specification states it: after a successful Tar or Zip of   *)
(* an archive of directories and regular files only, with plain names that *)
(* stay in the destination and no two entries of the same output path,     *)
(* each directory entry is a directory whose mode is the declared one with *)
(* the owner-execute bit added, each file entry is a regular file with the *)
(* bytes and the mode of the entry, and nothing else is in the destination *)
(* but the parent directories these imply.                                 *)

HasBackslash(name) == \E i \in 1..Len(name) : name[i] = "\\"

DistinctPaths ==
    \A i, j \in Entries :
        (i # j /\ Kept(archive[i]) /\ Kept(archive[j])) =>
            OutputSegs(archive[i]) # OutputSegs(archive[j])

PlainTree ==
    /\ DistinctPaths
    /\ \A i \in Entries : /\ archive[i].kind \in {"dir", "reg"}
                          /\ Kept(archive[i])
                          /\ ~HasBackslash(archive[i].Name)

\* nothing is in the destination but the entries and their parents
NoExtras ==
    \A q \in DOMAIN fs :
        IsStrictPrefixPath(RootSegs, q) =>
            \E i \in Entries : Kept(archive[i]) /\ IsPrefixPath(q, OutputSegs(archive[i]))

MirrorsEntry(e) ==
    /\ OutputSegs(e) \in DOMAIN fs
    /\ IF e.kind = "dir"
       THEN /\ fs[OutputSegs(e)].kind = "dir"
            /\ fs[OutputSegs(e)].mode = OrOwnerExec(e.Mode)
       ELSE /\ fs[OutputSegs(e)].kind = "file"
            /\ fs[OutputSegs(e)].mode = e.Mode
            /\ fs[OutputSegs(e)].data = e.Data

C15_TreeMirrored ==
    (result = "ok" /\ format \in {"tar", "zip"} /\ archive # <<>> /\ PlainTree) =>
        /\ \A i \in Entries : MirrorsEntry(archive[i])
        /\ NoExtras

-----------------------------------------------------------------------------
(* C16: after a successful extraction (Tar or Zip, called directly or by   *)
(* Archive, Gz, Bz2, Xz, Zstd) of an archive no two entries of which have  *)
(* the same output path, every pending symbolic link's path holds a        *)
(* symbolic link with the text of its entry and no placeholder, every hard *)
(* link's path is another name of the file its target names, and nothing   *)
(* is in the destination but the entries and their parent directories.     *)

SameFile(p, q) ==
    /\ p \in DOMAIN fs /\ q \in DOMAIN fs
    /\ fs[p].kind = "file" /\ fs[q].kind = "file" /\ fs[p].ino = fs[q].ino

-----------------------------------------------------------------------------
(* C17: the Renamer is applied to the name of the entry before the safety  *)
(* check and its result is what is joined to the destination: an entry the *)
(* Renamer maps to "" causes no filesystem operation and queues nothing,   *)
(* every operation and every queued link of another entry is at            *)
(* safeJoin(destination, rename(name)) (or, for the MkdirAll of copy, at   *)
(* its parent), a regular file is created there, and a nil Renamer leaves  *)
(* the name as it is.                                                      *)

\* the entry of index i is materialised at the join of the destination and r
MaterialisedAt(i, r, sj) ==
    /\ \A n \in Ops :
          journal[n].idx = i =>
             /\ r # <<>> /\ ~sj.err
             /\ journal[n].path \in {sj.path, FilepathDir(sj.path)}
    /\ \A n \in 1..Len(links) :
          links[n].idx = i => (r # <<>> /\ ~sj.err /\ links[n].Path = sj.path)
    /\ \A n \in 1..Len(symlinks) :
          symlinks[n].idx = i => (r # <<>> /\ ~sj.err /\ symlinks[n].Path = sj.path)

\* the first call of copy for a regular file is made
CopyStarted(i, sj) ==
    \E n \in Ops : /\ journal[n].idx = i /\ journal[n].op = "mkdirall"
                   /\ journal[n].site = "copy" /\ journal[n].path = FilepathDir(sj.path)

C17_RenamedThenJoined ==
    format \in {"tar", "zip"} =>
        \A i \in Entries :
            /\ rename = "nil" => RenamedName(archive[i]) \in
                                   {archive[i].Name, ReplaceAll(archive[i].Name, "\\", Sep)}
            /\ MaterialisedAt(i, RenamedName(archive[i]),
                              safeJoin(location, RenamedName(archive[i])))
            /\ (/\ archive[i].kind = "reg" /\ format = "tar"
                /\ RenamedName(archive[i]) # <<>>
                /\ ~safeJoin(location, RenamedName(archive[i])).err)
                  => CopyStarted(i, safeJoin(location, RenamedName(archive[i])))

\* shift maps f to "" and a/f to f: the first is skipped, the second made at f
C17_Witness ==
    /\ format = "tar" /\ rename = "shift" /\ result = "ok"
    /\ \E i, j \in Entries :
          /\ archive[i].Name = <<"f">> /\ archive[i].kind = "reg"
          /\ archive[j].Name = <<"a", "/", "f">> /\ archive[j].kind = "reg"
          /\ \A n \in Ops : journal[n].idx # i
          /\ \E n \in Ops : /\ journal[n].idx = j /\ journal[n].op = "open" /\ journal[n].ok
                            /\ journal[n].path = FilepathJoin(location, <<"f">>)

-----------------------------------------------------------------------------
(* C18, as the specification states it: in Zip the Renamer receives the    *)
(* name exactly as the archive stores it, backslashes included, and the    *)
(* backslashes become separators only in what the Renamer returns: an      *)
(* entry is skipped when the Renamer maps its stored name to "", and is    *)
(* otherwise materialised at the join of the destination and the           *)
(* normalised result.                                                      *)

C18_ZipRenamerGetsStoredName ==
    format = "zip" =>
        \A i \in Entries :
            MaterialisedAt(i, ApplyRename(archive[i].Name),
                           safeJoin(location,
                                    ReplaceAll(ApplyRename(archive[i].Name), "\\", Sep)))

(* C18, as the code has it: in Zip the Renamer receives the stored name    *)
(* with every backslash already replaced by a slash; an entry is skipped   *)
(* when the Renamer maps that name to "", and is otherwise materialised at *)
(* the join of the destination and what the Renamer returned for it.       *)

Normalised(name) == ReplaceAll(name, "\\", Sep)

EndsWithBackslash(e) == HasSuffix(e.Name, <<"\\">>)

C18_ZipRenamerGetsNormalisedName ==
    format = "zip" =>
        \A i \in Entries :
            /\ MaterialisedAt(i, ApplyRename(Normalised(archive[i].Name)),
                              safeJoin(location, ApplyRename(Normalised(archive[i].Name))))
            /\ (/\ archive[i].kind = "reg" /\ ~EndsWithBackslash(archive[i])
                /\ ApplyRename(Normalised(archive[i].Name)) # <<>>
                /\ ~safeJoin(location, ApplyRename(Normalised(archive[i].Name))).err)
                  => CopyStarted(i, safeJoin(location,
                                             ApplyRename(Normalised(archive[i].Name))))

\* shift is given a/f for the name stored as a\f, and the file is made at f
C18_Witness ==
    /\ format = "zip" /\ rename = "shift"
    /\ \E i \in Entries :
          /\ archive[i].Name = <<"a", "\\", "f">>
          /\ \E n \in Ops : /\ journal[n].idx = i /\ journal[n].op = "open" /\ journal[n].ok
                            /\ journal[n].path = FilepathJoin(location, <<"f">>)

-----------------------------------------------------------------------------
(* C19: in Zip no path handed to the filesystem holds a backslash, every   *)
(* backslash of a stored name having become a separator, and an entry      *)
(* whose stored name ends with a backslash is handled as a directory       *)
(* (Stat, then Chmod or MkdirAll), never opened as a file nor queued as a  *)
(* symbolic link, whatever its stored mode.                                *)

C19_BackslashIsSeparator ==
    format = "zip" =>
        /\ \A n \in Ops : ~HasBackslash(journal[n].path)
        /\ \A n \in 1..Len(symlinks) :
              /\ ~HasBackslash(symlinks[n].Path)
              /\ ~EndsWithBackslash(archive[symlinks[n].idx])
        /\ \A n \in Ops :
              (journal[n].idx \in Entries /\ EndsWithBackslash(archive[journal[n].idx])) =>
                  /\ journal[n].site = "dir"
                  /\ journal[n].op \in {"stat", "chmod", "mkdirall"}
        /\ \A i \in Entries :
              (/\ EndsWithBackslash(archive[i]) /\ Kept(archive[i])
               /\ RenamedName(archive[i]) # <<>>) =>
                  \E n \in Ops : /\ journal[n].idx = i /\ journal[n].site = "dir"
                                 /\ journal[n].op \in {"chmod", "mkdirall"}

\* a file stored as b\ became the directory b, a file stored as a\f the file a/f
C19_Witness ==
    /\ format = "zip" /\ rename = "nil" /\ result = "ok"
    /\ \E i, j \in Entries :
          /\ archive[i].Name = <<"b", "\\">> /\ archive[i].kind = "reg"
          /\ archive[j].Name = <<"a", "\\", "f">>
    /\ PathSegs(FilepathJoin(location, <<"b">>)) \in DOMAIN fs
    /\ fs[PathSegs(FilepathJoin(location, <<"b">>))].kind = "dir"
    /\ PathSegs(FilepathJoin(location, <<"a", "/", "f">>)) \in DOMAIN fs
    /\ fs[PathSegs(FilepathJoin(location, <<"a", "/", "f">>))].kind = "file"

-----------------------------------------------------------------------------
(* C20, as the specification states it: in Tar and in Zip alike, the mode  *)
(* given to the MkdirAll of a directory entry is the stored mode of the    *)
(* entry with the owner-execute bit added.                                 *)

C20_DirModeOwnerExec ==
    \A n \in Ops :
        (journal[n].op = "mkdirall" /\ journal[n].site = "dir") =>
            journal[n].mode = OrOwnerExec(archive[journal[n].idx].Mode)

-----------------------------------------------------------------------------
(* C30: for every hard-link entry of a tar that is kept, the Link made for *)
(* it has for old name safeJoin(destination, rename(Linkname)) and for new *)
(* name the safe-joined output path of the entry; the entry has no         *)
(* filesystem operation in the entry pass; and every Link is immediately   *)
(* preceded by the Remove of its new name.                                 *)

IsLinkEntry(i) == i \in Entries /\ archive[i].kind = "link"

C30_HardLinkArguments ==
    format = "tar" =>
        /\ \A n \in Ops :
              IsLinkEntry(journal[n].idx) =>
                  /\ journal[n].site = "link"
                  /\ journal[n].path =
                        safeJoin(location, RenamedName(archive[journal[n].idx])).path
        /\ \A n \in Ops :
              journal[n].op = "link" =>
                  /\ IsLinkEntry(journal[n].idx)
                  /\ journal[n].old =
                        safeJoin(location, ApplyRename(archive[journal[n].idx].Linkname)).path
                  /\ n > 1
                  /\ journal[n - 1].op = "remove"
                  /\ journal[n - 1].path = journal[n].path
                  /\ journal[n - 1].idx = journal[n].idx

\* with shift, the link a/h -> a/f of the archive is made as h -> f
C30_Witness ==
    /\ format = "tar" /\ result = "ok" /\ rename # "nil"
    /\ \E n \in Ops : /\ journal[n].op = "link" /\ journal[n].ok
                      /\ journal[n].old # FilepathJoin(location,
                                                       archive[journal[n].idx].Linkname)

-----------------------------------------------------------------------------
(* C29: for a regular file of a tar or a zip, and for the one file of a    *)
(* compressed stream, copy calls MkdirAll on the parent of the output      *)
(* path, then Remove on the output path, whose failure is ignored, then    *)
(* OpenFile on the output path with the stored mode of the entry (0666 for *)
(* the one file), with no other call in between, and then writes the       *)
(* content; what is at the output path, a symbolic link included, is       *)
(* removed and the file made in its place, not where the link leads.       *)

IsCopyOp(n, op) == n \in Ops /\ journal[n].site = "copy" /\ journal[n].op = op

SameEntry(m, n) == journal[m].idx = journal[n].idx

\* the path copy is given for the entry of index i, 0 being the one file
CopyPath(i) ==
    IF i = 0 THEN location ELSE safeJoin(location, RenamedName(archive[i])).path

StoredMode(i) == IF i = 0 THEN 438 ELSE archive[i].Mode

StoredData(i, d) == IF i = 0 THEN TRUE ELSE d = archive[i].Data

Base(path) == SubSeq(path, LastIndexOf(path, Sep) + 1, Len(path))

C29_CopySequence ==
    \A n \in Ops :
        /\ journal[n].site = "copy" => journal[n].op \in {"mkdirall", "remove", "open"}
        /\ IsCopyOp(n, "mkdirall") =>
              /\ journal[n].path = FilepathDir(CopyPath(journal[n].idx))
              /\ journal[n].ok => (IsCopyOp(n + 1, "remove") /\ SameEntry(n, n + 1))
              /\ ~journal[n].ok => n = Len(journal)
        /\ IsCopyOp(n, "remove") =>
              /\ journal[n].path = CopyPath(journal[n].idx)
              /\ IsCopyOp(n - 1, "mkdirall") /\ SameEntry(n - 1, n)
              /\ IsCopyOp(n + 1, "open") /\ SameEntry(n, n + 1)
        /\ IsCopyOp(n, "open") =>
              /\ journal[n].path = CopyPath(journal[n].idx)
              /\ journal[n].mode = StoredMode(journal[n].idx)
              /\ IsCopyOp(n - 1, "remove") /\ SameEntry(n - 1, n)
              /\ journal[n].ok =>
                    \A t \in journal[n].touched :
                        /\ t # <<>> /\ t[Len(t)] = Base(journal[n].path)
                        /\ journal[n - 1].ok => t \in journal[n - 1].touched
                        /\ (n = Len(journal) /\ result \in {"running", "ok"}) =>
                              /\ fs[t].kind = "file"
                              /\ StoredData(journal[n].idx, fs[t].data)

\* the file f was made in the place of the symbolic link f -> /t/m/e
C29_Witness ==
    /\ Len(archive) = 1 /\ result = "ok"
    /\ \E n \in Ops :
          /\ IsCopyOp(n, "remove") /\ journal[n].ok
          /\ journal[n].touched = { << <<"t">>, <<"d">>, <<"f">> >> }
          /\ IsCopyOp(n + 1, "open") /\ journal[n + 1].ok
    /\ << <<"t">>, <<"d">>, <<"f">> >> \in DOMAIN fs
    /\ fs[<< <<"t">>, <<"d">>, <<"f">> >>].kind = "file"
    /\ << <<"t">>, <<"m">>, <<"e">> >> \notin DOMAIN fs

-----------------------------------------------------------------------------
(* C26, as the specification states it: a MkdirAll, OpenFile, Chmod, Link, *)
(* Symlink or Remove that reports an error is the last filesystem          *)
(* operation of the call, and the call returns an error.                   *)

Fatal(n) == n = Len(journal) /\ result \notin {"running", "ok"}

Ignored(c) == c.op \in {"remove", "stat"}

\* what the operation n made is there, or a later Remove took it away
StillThere(n) ==
    \A t \in journal[n].touched :
        \/ t \in DOMAIN fs
        \/ \E m \in Ops : /\ m > n /\ journal[m].op = "remove" /\ journal[m].ok
                          /\ t \in journal[m].touched

-----------------------------------------------------------------------------
(* C21: in Zip, a directory entry whose path exists already, made for a    *)
(* file read before it with a mode derived from the file's, is given its   *)
(* declared mode plus owner-execute by a Chmod that succeeds, and no       *)
(* MkdirAll is called for it; the extraction does not fail on it, and at   *)
(* the end of a successful call of an archive without two entries of the   *)
(* same output path the directory has that mode.                           *)

\* the operation m of copy made the directory the operation n is about
MadeByCopy(m, n) ==
    /\ m < n
    /\ journal[m].op = "mkdirall" /\ journal[m].site = "copy" /\ journal[m].ok
    /\ IsPrefixPath(PathSegs(journal[n].path), PathSegs(journal[m].path))

C21_ExistingDirChmod ==
    format = "zip" =>
        /\ \A m, n \in Ops :
              (/\ journal[n].site = "dir" /\ journal[n].op \in {"chmod", "mkdirall"}
               /\ MadeByCopy(m, n)) =>
                  /\ journal[n].op = "chmod" /\ journal[n].ok
                  /\ journal[n].mode = OrOwnerExec(archive[journal[n].idx].Mode)
                  /\ (result = "ok" /\ DistinctPaths) =>
                        fs[PathSegs(journal[n].path)].mode = journal[n].mode
        /\ result \notin {"mkdir", "chmod"}

\* the file a/f made the directory a with mode 0744; the entry of a, read
\* after it, declares 0600 and the directory ends with 0700
C21_Witness ==
    /\ format = "zip" /\ result = "ok" /\ Len(archive) = 2
    /\ archive[1].kind = "reg" /\ archive[2].kind = "dir" /\ archive[2].Mode = 384
    /\ \E m, n \in Ops : /\ MadeByCopy(m, n) /\ journal[m].mode = 484
                         /\ journal[n].op = "chmod" /\ journal[n].idx = 2
                         /\ fs[PathSegs(journal[n].path)].mode = 448

-----------------------------------------------------------------------------
(* C25, as the specification states it: whether the stream can seek or     *)
(* not and however many bytes its first read returns, the reader match     *)
(* returns yields the bytes of the stream from the first to the last, none *)
(* lost and none twice; and a stream that has the signature of no kind is  *)
(* told "unknown", without an error.                                       *)

\* what was read, what is put before the stream, and what is left of it
Yielded(m) == m.out \o m.head \o SubSeq(m.data, m.pos + 1, Len(m.data))

MatchPreservesBytes ==
    mt.state = "matched" => (Yielded(mt) = mt.data /\ (mt.eof => mt.out = mt.data))

\* the bytes of the stream themselves match no matcher
NoSignature(data) == Matches(data) = {}

C25_MatchContract ==
    /\ MatchPreservesBytes
    /\ (mt.state = "matched" /\ NoSignature(mt.data)) => mt.kind = "unknown"

-----------------------------------------------------------------------------
(* C22, as the specification states it: Archive, on a stream whose bytes   *)
(* have the signature of none of zip, gzip, bzip2, xz, zstd and tar, ends  *)
(* with the error "Not a supported archive: " followed by the kind match   *)
(* told, and has made no call on the filesystem.                           *)

NoKnownSignature(data) == Matches(data) \cap Kinds = {}

C22_UnknownIsUnsupported ==
    (mt.caller = "archive" /\ mt.outcome # "none" /\ NoKnownSignature(mt.data)) =>
        /\ mt.outcome = "unsupported"
        /\ message = <<"Not a supported archive: ", mt.kind>>
        /\ journal = <<>>

-----------------------------------------------------------------------------
(* C23, as the specification states it: Gz, Bz2, Xz and Zstd look at what  *)
(* the decompressed stream is; when it is a tar they call Tar on it, and   *)
(* in every other case they copy it as it is to one file.                  *)

IsTar(data) == HasAt(data, UstarOffset, Ustar)

C23_TarInnerGoesToTar ==
    (mt.caller = "wrapper" /\ mt.outcome \notin {"none", "detect"}) =>
        (mt.outcome = "tar" <=> IsTar(mt.data))

-----------------------------------------------------------------------------
(* C24: when Gz, Bz2, Xz or Zstd cannot decode the header of the           *)
(* compressed stream, the call returns the error of the decoder and has    *)
(* made no call on the filesystem: the destination is as it was.           *)

C24_DecodeErrorBeforeAnyOp ==
    result = "detect" =>
        /\ format \in {"gz", "bz2", "xz", "zst"}
        /\ journal = <<>> /\ fs = FreshFs
        /\ archive = <<>> /\ links = <<>> /\ symlinks = <<>>

C24_Witness ==
    /\ result = "detect" /\ format = "bz2" /\ pc = "decompress" /\ ~cancelled
    /\ journal = <<>>

-----------------------------------------------------------------------------
(* C27, as the specification states it: Zip does the same for an archive   *)
(* whether its body can seek, and is read in place, or cannot, and is read *)
(* into a buffer first: as zip.NewReader refuses a body that can seek only *)
(* when it is not a zip file, so it does for one that cannot, and what     *)
(* follows the opening never looks at how the body was read.               *)

C27_RefusedOnlyWhenNotZip ==
    (format = "zip" /\ result = "zip") => ~valid

\* with a body that can seek this is so
SeekableRefusedOnlyWhenNotZip ==
    (format = "zip" /\ seekable /\ result = "zip") => ~valid

-----------------------------------------------------------------------------
(* C28: two calls of Tar or Zip run at the same time on /t/d and on /t/m;  *)
(* the scheduler may pass from one to the other between any two of their   *)
(* calls on the filesystem.  Each call that has ended has the result it    *)
(* has alone, has journalled the calls it makes alone, with the outcomes   *)
(* they have alone, and leaves under its destination the tree it leaves    *)
(* alone; and no call of one is on a path under the destination of the     *)
(* other, nor changes anything there.                                      *)

Alone == St(FreshFs, <<>>, <<>>, <<>>, "none")

\* the first pass of the call on its archive, each handler in one step
RECURSIVE AloneEntries(_, _)
AloneEntries(S, i) ==
    IF i > Len(archive) \/ S.err # "none" THEN S
    ELSE AloneEntries(IF format = "tar" THEN TarHeader(S, archive[i], i)
                      ELSE ZipHeader(S, archive[i], i), i + 1)

RECURSIVE AloneLinks(_, _)
AloneLinks(S, i) ==
    IF i > Len(S.links) \/ S.err # "none" THEN S
    ELSE AloneLinks(HardLink(S, S.links[i]), i + 1)

RECURSIVE AlonePlaceholders(_, _)
AlonePlaceholders(S, i) ==
    IF i > Len(S.symlinks) \/ S.err # "none" THEN S
    ELSE AlonePlaceholders(Placeholder(S, S.symlinks[i]), i + 1)

RECURSIVE AloneSymlinks(_, _)
AloneSymlinks(S, i) ==
    IF i > Len(S.symlinks) \/ S.err # "none" THEN S
    ELSE AloneSymlinks(RealSymlink(S, S.symlinks[i]), i + 1)

\* the call alone: the stream that broke after the headers read breaks there
AloneCall ==
    IF result = "tar" THEN AloneEntries(Alone, 1)
    ELSE AloneSymlinks(AlonePlaceholders(AloneLinks(AloneEntries(Alone, 1), 1), 1), 1)

\* what lies in the filesystem f at the resolved path root and under it
Under(f, root) == [p \in { q \in DOMAIN f : IsPrefixPath(root, q) } |-> f[p]]

SameAsAlone(alone) ==
    /\ result = (IF alone.err # "none" THEN alone.err
                 ELSE IF result = "tar" THEN "tar" ELSE "ok")
    /\ journal = alone.journal
    /\ Under(fs, RootSegs) = Under(alone.fs, RootSegs)

\* the calls journalled in j keep out of the destination root
KeepsOut(j, root) ==
    \A n \in DOMAIN j :
        /\ ~IsPrefixPath(PathSegs(root), PathSegs(j[n].path))
        /\ ~IsPrefixPath(PathSegs(root), PathSegs(j[n].old))
        /\ \A t \in j[n].touched : ~IsPrefixPath(PathSegs(root), t)

C28_ConcurrentCallsIsolated ==
    Paired =>
        /\ KeepsOut(journal, other.location)
        /\ KeepsOut(other.journal, location)
        /\ result # "running" => SameAsAlone(AloneCall)

\* both calls have ended well, each with a file written and a symbolic
\* link made, and one of them was left by the scheduler in the middle
\* of a handler
C28_Witness ==
    /\ Paired /\ result = "ok" /\ other.result = "ok"
    /\ other.mixed /\ Len(journal) >= 5 /\ Len(other.journal) >= 5
    /\ \E n \in DOMAIN journal : journal[n].op = "symlink" /\ journal[n].ok
    /\ \E n \in DOMAIN other.journal : other.journal[n].op = "symlink" /\ other.journal[n].ok

-----------------------------------------------------------------------------
(* C31, as the specification states it: however the caller spells the      *)
(* destination (relative, with "." or ".." elements, empty), safeJoin      *)
(* accepts every name made of ordinary elements only, so that no harmless  *)
(* entry is skipped.                                                       *)

\* the elements of a name are neither empty at its front nor ".."
OrdinaryName(name) ==
    /\ name # <<>> /\ name[1] # Sep
    /\ \A i \in DOMAIN Split(name, Sep) : Split(name, Sep)[i] # DotDot

C31_OrdinaryNameAccepted ==
    (sjOut.done /\ OrdinaryName(sjArg[2])) => ~sjOut.err

\* it is so for the destinations that filepath.Clean leaves as they are
CleanRootAccepted ==
    (sjOut.done /\ OrdinaryName(sjArg[2]) /\ Clean(sjArg[1]) = sjArg[1] /\ sjArg[1] # <<".">>)
        => ~sjOut.err

-----------------------------------------------------------------------------
(* C32, as the specification states it: the kind match tells depends on    *)
(* the bytes of the stream only, not on how many of them the first read    *)
(* returns: it is the kind of the first 512 bytes of the stream, so that a *)
(* stream with the magic of tar at offset 257 is a tar whatever the size   *)
(* of the first read.                                                      *)

\* the bytes of the stream that fit the buffer
Leading(data) == SubSeq(data, 1, Min(BufSize, Len(data)))

C32_KindFromContentOnly ==
    mt.state = "matched" => mt.kind \in Classify(Pad(Leading(mt.data)))

\* it is so when the first read fills the buffer or reaches the end
KindFromFullRead ==
    (mt.state = "matched" /\ Len(mt.out) = 0 /\ ~mt.eof
        /\ (IF mt.seek THEN FALSE ELSE Len(mt.head) = Len(Leading(mt.data))))
        => mt.kind \in Classify(Pad(Leading(mt.data)))

-----------------------------------------------------------------------------
(* C33, as the specification states it: when Tar or Zip has extracted an   *)
(* archive into the empty destination and returned nil, the same call made *)
(* again on what the first one left returns nil too and leaves the same    *)
(* objects at the same paths, with the same contents and link targets.     *)

\* the call made again on the filesystem as it is, with the same archive
Again ==
    AloneSymlinks(AlonePlaceholders(AloneLinks(AloneEntries(
        St(fs, journal, <<>>, <<>>, "none"), 1), 1), 1), 1)

\* what the claim compares: the kind of each object, the content of a
\* file, the target of a link
Shape(f) ==
    [p \in DOMAIN f |-> [kind |-> f[p].kind, data |-> f[p].data, target |-> f[p].target]]

SameTreeAgain(again) == again.err = "none" /\ Shape(again.fs) = Shape(fs)

C33_Idempotent ==
    (format \in {"tar", "zip"} /\ result = "ok" /\ ~cancelled) => SameTreeAgain(Again)

\* it is so for the archives in which no two entries have the same path
IdempotentWithoutCollision ==
    (format \in {"tar", "zip"} /\ result = "ok" /\ ~cancelled /\ DistinctPaths)
        => SameTreeAgain(Again)

-----------------------------------------------------------------------------
(* C34, as the specification states it: when two entries of an archive     *)
(* have the same output path and Tar or Zip returns nil, the object at     *)
(* that path is the one the later of the two describes, whatever the kinds *)
(* of the two entries.                                                     *)

\* what the entry e is taken for: in a zip a name that ends with a
\* backslash is a directory
TakenFor(e) == IF format = "zip" /\ HasSuffix(e.Name, <<"\\">>) THEN "dir" ELSE e.kind

\* the entry is neither skipped nor, a hard link, dropped for its target
Taken(e) ==
    /\ Kept(e)
    /\ TakenFor(e) = "link" => ~safeJoin(location, ApplyRename(e.Linkname)).err

\* the object at the output path of the entry e is the one e describes
LeftBy(e) ==
    /\ OutputSegs(e) \in DOMAIN fs
    /\ CASE TakenFor(e) = "dir"     -> fs[OutputSegs(e)].kind = "dir"
         [] TakenFor(e) = "reg"     -> /\ fs[OutputSegs(e)].kind = "file"
                                       /\ fs[OutputSegs(e)].data = e.Data
         [] TakenFor(e) = "symlink" -> /\ fs[OutputSegs(e)].kind = "symlink"
                                       /\ fs[OutputSegs(e)].target = e.Linkname
         [] OTHER                   -> fs[OutputSegs(e)].kind = "file"

\* the entry j is the last one with its output path, and not the first
LastOfSeveral(j) ==
    /\ Taken(archive[j])
    /\ \E i \in 1..(j - 1) :
            Taken(archive[i]) /\ OutputSegs(archive[i]) = OutputSegs(archive[j])
    /\ \A l \in (j + 1)..Len(archive) :
            Taken(archive[l]) => OutputSegs(archive[l]) # OutputSegs(archive[j])

C34_LaterEntryWins ==
    (format \in {"tar", "zip"} /\ result = "ok") =>
        \A j \in Entries : LastOfSeveral(j) => LeftBy(archive[j])

\* it is so when none of the entries with that path is a link: links are
\* made after all the files and directories
LaterWinsAmongFilesAndDirs ==
    (format \in {"tar", "zip"} /\ result = "ok") =>
        \A j \in Entries :
            (/\ LastOfSeveral(j)
             /\ \A i \in 1..j : OutputSegs(archive[i]) = OutputSegs(archive[j])
                                    => TakenFor(archive[i]) \in {"dir", "reg"})
                => LeftBy(archive[j])

-----------------------------------------------------------------------------
(* C35, as the specification states it: when a hard link, a placeholder or *)
(* a symbolic link is made at a safe output path, the directory it is made *)
(* in exists, whether or not an entry of the archive made it; so a call    *)
(* never fails at a link because the parent directory is missing, and an   *)
(* archive of one symbolic link dir/link extracts into an empty            *)
(* destination.                                                            *)

\* the path p leads to a directory
IsDirAt(f, p) ==
    LET w == Resolve(f, p, TRUE)
    IN  w.st = "ok" /\ w.exists /\ f[w.path].kind = "dir"

C35_LinkParentsExist ==
    (format \in {"tar", "zip"} /\ result \in {"link", "placeholder", "symlink"}) =>
        IsDirAt(fs, FilepathDir(journal[Len(journal)].path))

\* the directory exists when the link is put right in the destination
TopLevelLinkParentExists ==
    (/\ format \in {"tar", "zip"} /\ result \in {"link", "placeholder", "symlink"}
     /\ FilepathDir(journal[Len(journal)].path) = Clean(location)) =>
        IsDirAt(fs, FilepathDir(journal[Len(journal)].path))

-----------------------------------------------------------------------------
(* C36, as the specification states it: an archive of regular files is     *)
(* extracted whatever the permission bits of the files; a directory that   *)
(* copy makes for a file, with the bits of the file and the search bit of  *)
(* the owner, lets the next file be created in it, also when the first     *)
(* file may not be written by its owner.                                   *)

OnlyFiles == \A i \in Entries : archive[i].kind = "reg"

C36_FilesExtractWhateverMode ==
    (enforce /\ format \in {"tar", "zip"} /\ OnlyFiles) => result # "copy"

\* it is so when the owner may write every file of the archive
WritableFilesExtract ==
    (/\ enforce /\ format \in {"tar", "zip"} /\ OnlyFiles
     /\ \A i \in Entries : OwnerBit(archive[i].Mode, 128)) => result # "copy"

\* C37: once the signal was raised, every checkpoint the call comes to
\* observes it: no turn of the loops of ZipCancel is done after a signal,
\* also after one that was first observed while the input was buffered
C37_SignalStaysObserved == cancelled => k - 1 = cancelAt.n

\* what holds of it: a signal raised by closing the channel, and any signal
\* raised after the buffering, stops the loops at their next turn
ClosedOrLaterSignalObserved ==
    (cancelled /\ (cp.closed \/ ~cancelAt.start)) => k - 1 = cancelAt.n

-----------------------------------------------------------------------------
(* C38: a tar entry that is neither a directory, a regular file, a hard    *)
(* link nor a symbolic link is passed over                                 *)

TarKinds == {"dir", "reg", "link", "symlink"}

\* C38: the turn of Tar's loop that reads a header of another type calls
\* nothing on the file system, queues nothing and fails with nothing: but
\* for the header read, the call is where it was, and goes on to the next
\* entry as if the header had not been there
C38_OtherTypePassedOver ==
    [][ (/\ format = "tar" /\ Len(archive') = Len(archive) + 1
         /\ archive'[Len(archive')].kind \notin TarKinds)
        => /\ fs' = fs /\ journal' = journal
           /\ links' = links /\ symlinks' = symlinks
           /\ result' = "running" /\ pc' = pc /\ k' = k /\ begun' = 0 ]_vars

\* a tar with a header of another type and a regular file after it was
\* extracted: nothing was called for the former, the file was made
C38_Witness ==
    /\ format = "tar" /\ result = "ok"
    /\ \E i, j \in DOMAIN archive :
         /\ i < j /\ archive[i].kind \notin TarKinds /\ archive[j].kind = "reg"
         /\ \A n \in DOMAIN journal : journal[n].idx # i
         /\ \E n \in DOMAIN journal : journal[n].idx = j /\ journal[n].op = "open" /\ journal[n].ok

====
